---- MODULE Spec2Model ----
(***************************************************************************)
(* Notification & alerting pipeline of the Clamio admin front end.         *)
(*                                                                         *)
(*   SpecTriage  the NotificationDialog's list side: page, filters, the    *)
(*               two React effects and the overlapping list fetches        *)
(*               (src/unnamed/part_000).                                   *)
(*   SpecPush    the PushNotificationService singleton, the                *)
(*               SimpleNotificationService singleton and the dialog's      *)
(*               push-settings handlers that mirror them                   *)
(*               (src/lib/vendorErrorTracker.ts,                           *)
(*               src/lib/simpleNotificationService.ts,                     *)
(*               src/unnamed/part_000).                                    *)
(*   SpecService the PushNotificationService driven through its own        *)
(*               updatePreference, without the dialog.                     *)
(*   SpecDetail  the dialog's list with its detail view: selection,        *)
(*               resolution notes, the resolve and dismiss handlers and    *)
(*               the store they call (src/unnamed/part_000).               *)
(*   SpecRepeat  the same detail view with the Resolve and Dismiss buttons *)
(*               activated again while their first call is in flight.      *)
(*   SpecTest    SpecPush with the settings view's test button             *)
(*               (handleTestNotification).                                 *)
(*   SpecTracker the VendorErrorTracker and a call wrapped by              *)
(*               createTrackedApiCall (src/lib/vendorErrorTracker.ts).     *)
(*   SpecText    the texts computed from an error: type, severity, title   *)
(*               and message of the notification the tracker submits, and  *)
(*               the guidance of the dialog's failed enable, and the bytes *)
(*               of a decoded VAPID key                                    *)
(*               (src/lib/vendorErrorTracker.ts, src/unnamed/part_000).    *)
(*   SpecFallback, SpecFallbackLive                                        *)
(*               the SimpleNotificationService with its alerts and their   *)
(*               timers (src/lib/simpleNotificationService.ts).            *)
(*                                                                         *)
(* The effect of part_000:443-453 calls fetchNotifications() and           *)
(* loadPushStatus(); the two calls touch disjoint state, so each           *)
(* specification carries its half of that effect.                          *)
(***************************************************************************)
EXTENDS Integers, Sequences, FiniteSets, TLC

\* ---------------------------------------------------------------- bounds
\* Highest page number the Next button is followed to.
MaxPage == 3
\* Most list fetches in flight at once.
MaxInFlight == 2
\* Most push-side asynchronous operations (handlers, service calls, status
\* loads) awaiting something at once.
MaxCalls == 2

VARIABLES
    \* ---- NotificationDialog, list side (part_000:81-104)
    isOpen,          \* prop isOpen
    page,            \* useState(1)
    filters,         \* useState({status, type, severity, search})
    loading,         \* useState(false)
    pagination,      \* pagination.totalPages
    notifications,   \* the list on display, named by the request it answers
    reqs,            \* getNotifications calls in flight, in issue order
    effects,         \* React effects still to run for the current commit
    \* ---- history of the list side
    filterDirty,     \* a filter value changed and no fetch was issued since
    lastFetch,       \* the most recently issued list request
    latestState,     \* how the most recently issued request ended
    \* ---- browser and backend, as the push side sees them
    browser,         \* "none": no Notification API; "notif": Notification only;
                     \* "full": Notification, serviceWorker and PushManager
    backendKey,      \* the backend has a VAPID public key configured
    permission,      \* Notification.permission
    browserSub,      \* the browser's push manager holds a subscription
    backendSubscribed, \* the isSubscribed flag the backend stores
    \* ---- PushNotificationService (vendorErrorTracker.ts:475-479)
    vapidPublicKey,  \* TRUE: a key string; FALSE: null
    isSubscribed,
    subscription,    \* TRUE: a PushSubscription object; FALSE: null
    initPc,          \* where initialize() stands
    \* ---- SimpleNotificationService (simpleNotificationService.ts:16-17)
    isEnabled,
    \* ---- NotificationDialog, push side (part_000:95-98)
    pushSupported,
    pushEnabled,
    pushSubscribed,
    pushPermission,
    calls,           \* push-side asynchronous operations awaiting something
    \* ---- history of the push side
    last,            \* the operation the step just taken completed
    \* ---- the notification store, as the dialog reaches it through apiClient
    store,           \* status of each notification in the store
    \* ---- NotificationDialog, detail side (part_000:103-104)
    selectedNotification, \* the notification object held, or NoSelection
    resolutionNotes, \* the textarea's value, a sequence of characters
    ops,             \* resolveNotification / dismissNotification calls in flight
    \* ---- history of the detail side
    lastOp,          \* the resolve or dismiss the last detail-side step completed
    \* ---- VendorErrorTracker and one wrapped call (vendorErrorTracker.ts:29-31)
    tracked,         \* the wrapped call: its inputs, its position, its result
    \* ---- the texts the tracker and the dialog compute
    classified,      \* inputs of one computation and, once applied, its outputs
    \* ---- SimpleNotificationService's alerts (simpleNotificationService.ts:59-87)
    alerts,          \* each Notification object constructed: state and timer
    focused,         \* the window has focus
    \* ---- history of the fallback notifier
    lastSimple       \* the SimpleNotificationService call the last step made

triageVars == <<isOpen, page, filters, loading, pagination, notifications,
                reqs, effects, filterDirty, lastFetch, latestState>>

envVars == <<browser, backendKey, permission, browserSub, backendSubscribed>>
mgrVars == <<vapidPublicKey, isSubscribed, subscription, initPc>>
mirrorVars == <<pushSupported, pushEnabled, pushSubscribed, pushPermission>>
pushVars == <<envVars, mgrVars, isEnabled, mirrorVars, calls, last>>

\* The list side without isOpen, which both sides read.
listVars == <<page, filters, loading, pagination, notifications, reqs, effects,
              filterDirty, lastFetch, latestState>>

detailVars == <<store, selectedNotification, resolutionNotes, ops, lastOp>>

trackerVars == <<tracked>>

textVars == <<classified>>

fallbackVars == <<alerts, focused, lastSimple>>

\* What the list side's steps, and what the push side's steps, leave alone.
notListVars == <<pushVars, detailVars, trackerVars, textVars, fallbackVars>>
notPushVars == <<detailVars, trackerVars, textVars, fallbackVars>>
notDetailVars == <<triageVars, pushVars, trackerVars, textVars, fallbackVars>>
notTrackerVars == <<triageVars, pushVars, detailVars, textVars, fallbackVars>>
notTextVars == <<triageVars, pushVars, detailVars, trackerVars, fallbackVars>>

vars == <<triageVars, pushVars, detailVars, trackerVars, textVars, fallbackVars>>

\* ------------------------------------------------ NotificationDialog: list

\* part_000:87-92. No control of the dialog changes filters.type.
InitialFilters == [status |-> "all", type |-> "all", severity |-> "all", search |-> ""]

\* The values the status and severity Selects and the search Input
\* (part_000:609-644) are driven through.
FilterSpace == [status : {"all", "pending"}, type : {"all"},
                severity : {"all", "critical"}, search : {"", "q"}]

\* The notifications followed through the store and the list: they sit on
\* the first page of the list.
NotificationIds == {1, 2}

\* useState<Notification[]>([]) (part_000:81): nothing listed yet.
NoList == [page |-> 0, latest |-> FALSE,
           status |-> [id \in NotificationIds |-> "none"]]

\* response.data.notifications (part_000:122-123) for a request of page p
\* answered from the store contents snap: the status of each followed
\* notification, "none" for one that is not on the page.
Listed(p, snap) ==
    [id \in NotificationIds |-> IF p = 1 THEN snap[id] ELSE "none"]

\* fetchNotifications up to its await (part_000:107-120): setLoading(true),
\* params built from the page and filters of the render that made the
\* callback, and the getNotifications call goes out.
\* seen is what the
\* store held when the call went out.
IssueFetch(rs, p, f, snap) ==
    Append([i \in 1..Len(rs) |-> [rs[i] EXCEPT !.latest = FALSE]],
           [page |-> p, filters |-> f, latest |-> TRUE, seen |-> snap])

RemoveAt(s, i) == [j \in 1..(Len(s) - 1) |-> IF j < i THEN s[j] ELSE s[j + 1]]

\* The user may start something only once the commit's effects have run, and
\* while the fetches it can issue (two for a filter change) fit the bound.
Idle == effects = <<>> /\ Len(reqs) + 2 <= MaxInFlight

\* Dialog opened by the parent: isOpen changes, the data effect re-runs.
OpenDialog ==
    /\ UNCHANGED notListVars
    /\ Idle /\ ~isOpen
    /\ isOpen' = TRUE
    /\ effects' = <<"data">>
    /\ UNCHANGED <<page, filters, loading, pagination, notifications, reqs,
                   filterDirty, lastFetch, latestState>>

CloseDialog ==
    /\ UNCHANGED notListVars
    /\ Idle /\ isOpen
    /\ isOpen' = FALSE
    /\ effects' = <<"data">>
    /\ UNCHANGED <<page, filters, loading, pagination, notifications, reqs,
                   filterDirty, lastFetch, latestState>>

\* Select / Input onChange (part_000:609, 624, 642): setFilters with one
\* field replaced. A new filters object re-creates fetchNotifications, so the
\* data effect runs, then the page effect.
SetFilters(f) ==
    /\ UNCHANGED notListVars
    /\ Idle /\ isOpen
    /\ f # filters
    /\ \/ f = [filters EXCEPT !.status = f.status]
       \/ f = [filters EXCEPT !.severity = f.severity]
       \/ f = [filters EXCEPT !.search = f.search]
    /\ filters' = f
    /\ filterDirty' = TRUE
    /\ effects' = <<"data", "page">>
    /\ UNCHANGED <<isOpen, page, loading, pagination, notifications, reqs,
                   lastFetch, latestState>>

\* Clear Filters (part_000:647-653): always a new object, so both effects run
\* even when every filter was already clear.
ClearFilters ==
    /\ UNCHANGED notListVars
    /\ Idle /\ isOpen
    /\ filters' = InitialFilters
    /\ filterDirty' = (filterDirty \/ filters # InitialFilters)
    /\ effects' = <<"data", "page">>
    /\ UNCHANGED <<isOpen, page, loading, pagination, notifications, reqs,
                   lastFetch, latestState>>

\* Previous (part_000:746-754): shown when totalPages > 1, disabled on page 1.
PreviousPage ==
    /\ UNCHANGED notListVars
    /\ Idle /\ isOpen
    /\ pagination > 1 /\ page # 1
    /\ page' = page - 1
    /\ effects' = <<"data">>
    /\ UNCHANGED <<isOpen, filters, loading, pagination, notifications, reqs,
                   filterDirty, lastFetch, latestState>>

\* Next (part_000:758-766): disabled only when page === totalPages.
NextPage ==
    /\ UNCHANGED notListVars
    /\ Idle /\ isOpen
    /\ pagination > 1 /\ page # pagination
    /\ page < MaxPage
    /\ page' = page + 1
    /\ effects' = <<"data">>
    /\ UNCHANGED <<isOpen, filters, loading, pagination, notifications, reqs,
                   filterDirty, lastFetch, latestState>>

\* Refresh button (part_000:489-496): onClick={fetchNotifications}, disabled
\* while loading.
Refresh ==
    /\ UNCHANGED notListVars
    /\ Idle /\ isOpen
    /\ ~loading
    /\ loading' = TRUE
    /\ reqs' = IssueFetch(reqs, page, filters, store)
    /\ lastFetch' = [page |-> page, afterFilterChange |-> filterDirty]
    /\ filterDirty' = FALSE
    /\ latestState' = "pending"
    /\ UNCHANGED <<isOpen, page, filters, pagination, notifications, effects>>

\* The effect of part_000:443-453, list half: if (isOpen) fetchNotifications().
FetchEffect ==
    /\ UNCHANGED notListVars
    /\ effects # <<>> /\ Head(effects) = "data"
    /\ effects' = Tail(effects)
    /\ IF isOpen
       THEN /\ loading' = TRUE
            /\ reqs' = IssueFetch(reqs, page, filters, store)
            /\ lastFetch' = [page |-> page,
                             afterFilterChange |-> filterDirty]
            /\ filterDirty' = FALSE
            /\ latestState' = "pending"
       ELSE UNCHANGED <<loading, reqs, lastFetch, filterDirty, latestState>>
    /\ UNCHANGED <<isOpen, page, filters, pagination, notifications>>

\* The effect of part_000:456-458: setPage(1); a changed page re-renders and
\* the data effect runs again.
ResetPageEffect ==
    /\ UNCHANGED notListVars
    /\ effects # <<>> /\ Head(effects) = "page"
    /\ page' = 1
    /\ effects' = IF page # 1 THEN Tail(effects) \o <<"data">> ELSE Tail(effects)
    /\ UNCHANGED <<isOpen, filters, loading, pagination, notifications, reqs,
                   filterDirty, lastFetch, latestState>>

\* fetchNotifications after its await (part_000:120-138). outcome "ok":
\* response.success with data; "refused": success false; "throw": the call
\* rejected. pages is response.data.pagination.pages || 1. The store
\* answered the query at some moment between the call and its response: the
\* list returned is the store as it was at the call or as it is now.
FetchSettles(i, outcome, pages) ==
    /\ UNCHANGED notListVars
    /\ i \in 1..Len(reqs)
    /\ reqs' = RemoveAt(reqs, i)
    /\ loading' = FALSE
    /\ IF outcome = "ok"
       THEN /\ \E snap \in {reqs[i].seen, store} :
                  notifications' = [page |-> reqs[i].page,
                                    latest |-> reqs[i].latest,
                                    status |-> Listed(reqs[i].page, snap)]
            /\ pagination' = pages
       ELSE UNCHANGED <<notifications, pagination>>
    /\ latestState' = IF reqs[i].latest
                      THEN (IF outcome = "ok" THEN "applied" ELSE "failed")
                      ELSE latestState
    /\ UNCHANGED <<isOpen, page, filters, effects, filterDirty, lastFetch>>

TriageInit ==
    /\ isOpen = FALSE
    /\ page = 1
    /\ filters = InitialFilters
    /\ loading = FALSE
    /\ pagination = 1
    /\ notifications = NoList
    /\ reqs = <<>>
    /\ effects = <<>>
    /\ filterDirty = FALSE
    /\ lastFetch = [page |-> 1, afterFilterChange |-> FALSE]
    /\ latestState = "none"

\* ------------------------------------------------ NotificationDialog: detail

\* Longest text typed into the resolution notes.
MaxNotes == 1
\* Most resolve / dismiss calls in flight at once.
MaxOps == 1
\* Most resolve / dismiss calls in flight at once where a button is
\* activated again while its first call is still out.
MaxRepeat == 2

NoSelection == [id |-> 0, status |-> "none"]

\* What the textarea (part_000:854-860) can hold: blanks and other characters.
NotesValues == UNION {[1..n -> {" ", "x"}] : n \in 0..MaxNotes}

\* String.prototype.trim, as used at part_000:875.
RECURSIVE TrimStart(_)
TrimStart(s) == IF s # <<>> /\ Head(s) = " " THEN TrimStart(Tail(s)) ELSE s

RECURSIVE TrimEnd(_)
TrimEnd(s) == IF s # <<>> /\ s[Len(s)] = " "
              THEN TrimEnd(SubSeq(s, 1, Len(s) - 1))
              ELSE s

Trim(s) == TrimEnd(TrimStart(s))

\* Resolve button: disabled={!resolutionNotes.trim()} (part_000:875).
ResolveDisabledUntrimmed(notes) == notes = <<>>
ResolveDisabled(notes) == Trim(notes) = <<>>

\* Card onClick and the view button (part_000:674-678, 703-715): only a
\* notification listed as pending is selected.
CardSelectsAny(st) == TRUE
CardSelectable(st) == st = "pending"

\* The dismiss button is rendered under the same condition (part_000:703).
DismissOffered(st) == st = "pending"

\* The list can be clicked: the dialog is open, the list is rendered instead
\* of the spinner (part_000:660) and the detail dialog, which is modal, is
\* not over it (part_000:776-777).
ListClickable == isOpen /\ ~loading /\ selectedNotification = NoSelection

\* A resolveNotification or dismissNotification call in flight: the
\* notification, and whether the notes sent with it trim to nothing.
StoreCall(op, id) ==
    [op |-> op, id |-> id,
     blank |-> (op = "resolve" /\ Trim(resolutionNotes) = <<>>)]

\* What the detail side's last step completed, and how often it signalled
\* onNotificationUpdate.
OpEnded(c, outcome, signals) ==
    [op |-> c.op, id |-> c.id, outcome |-> outcome, signals |-> signals]

NoOpEnd == [op |-> "none", id |-> 0, outcome |-> "none", signals |-> 0]

\* The store carrying out resolveNotification(id, notes) or
\* dismissNotification(id, reason) and answering ok.
StoreApplies(st, c) ==
    [st EXCEPT ![c.id] = IF c.op = "resolve" THEN "resolved" ELSE "dismissed"]

SelectNotification(id) ==
    /\ ListClickable
    /\ notifications.status[id] # "none"
    /\ CardSelectable(notifications.status[id])
    /\ selectedNotification' = [id |-> id, status |-> notifications.status[id]]
    /\ lastOp' = NoOpEnd
    /\ UNCHANGED <<store, resolutionNotes, ops>>
    /\ UNCHANGED notDetailVars

\* onOpenChange, the X button and Cancel (part_000:777, 787-793, 866-872):
\* the selection is dropped, the notes are kept.
CloseDetail ==
    /\ isOpen /\ selectedNotification # NoSelection
    /\ selectedNotification' = NoSelection
    /\ lastOp' = NoOpEnd
    /\ UNCHANGED <<store, resolutionNotes, ops>>
    /\ UNCHANGED notDetailVars

\* textarea onChange (part_000:854-860).
SetNotes(n) ==
    /\ isOpen /\ selectedNotification # NoSelection
    /\ n # resolutionNotes
    /\ resolutionNotes' = n
    /\ lastOp' = NoOpEnd
    /\ UNCHANGED <<store, selectedNotification, ops>>
    /\ UNCHANGED notDetailVars

\* Resolve button (part_000:873-879) and handleResolveNotification up to its
\* await (part_000:357-359).
\* The button stays enabled while a call is in flight; `most` bounds the
\* calls in flight.
ResolveClicked(most) ==
    /\ isOpen /\ selectedNotification # NoSelection
    /\ ~ResolveDisabled(resolutionNotes)
    /\ Len(ops) < most
    /\ ops' = Append(ops, StoreCall("resolve", selectedNotification.id))
    /\ lastOp' = NoOpEnd
    /\ UNCHANGED <<store, selectedNotification, resolutionNotes>>
    /\ UNCHANGED notDetailVars

\* Dismiss button (part_000:716-726) and handleDismissNotification up to its
\* await (part_000:379-381). The button is rendered from the list, which
\* still shows the notification as pending until a refetch has landed.
DismissClicked(id, most) ==
    /\ ListClickable
    /\ DismissOffered(notifications.status[id])
    /\ Len(ops) < most
    /\ ops' = Append(ops, StoreCall("dismiss", id))
    /\ lastOp' = NoOpEnd
    /\ UNCHANGED <<store, selectedNotification, resolutionNotes>>
    /\ UNCHANGED notDetailVars

\* What handleResolveNotification does to the detail view once its call has
\* resolved (part_000:364-365).
AfterResolveKeepsDetail ==
    /\ resolutionNotes' = <<>>
    /\ UNCHANGED selectedNotification

AfterResolve ==
    /\ resolutionNotes' = <<>>
    /\ selectedNotification' = NoSelection

\* handleResolveNotification / handleDismissNotification after the await
\* (part_000:360-375, 382-395). "ok": the store carried the call out;
\* "refused": the call resolved without the store changing (the handlers do
\* not look at the response); "throw": the call rejected, only a toast.
OpSettles(i, r) ==
    /\ i \in 1..Len(ops)
    /\ ops' = RemoveAt(ops, i)
    /\ LET c == ops[i] IN
       IF r = "throw"
       THEN /\ lastOp' = OpEnded(c, r, 0)
            /\ UNCHANGED <<store, selectedNotification, resolutionNotes>>
            /\ UNCHANGED triageVars
       ELSE /\ Len(reqs) < MaxInFlight
            /\ store' = IF r = "ok" THEN StoreApplies(store, c) ELSE store
            /\ IF c.op = "resolve"
               THEN AfterResolve
               ELSE UNCHANGED <<selectedNotification, resolutionNotes>>
            \* fetchNotifications()
            /\ loading' = TRUE
            /\ reqs' = IssueFetch(reqs, page, filters, store')
            /\ lastFetch' = [page |-> page, afterFilterChange |-> filterDirty]
            /\ filterDirty' = FALSE
            /\ latestState' = "pending"
            \* onNotificationUpdate?.()
            /\ lastOp' = OpEnded(c, r, 1)
            /\ UNCHANGED <<isOpen, page, filters, pagination, notifications,
                           effects>>
    /\ UNCHANGED <<pushVars, trackerVars, textVars, fallbackVars>>

\* Refresh, reachable when the detail dialog is not over the list.
RefreshList == selectedNotification = NoSelection /\ Refresh

\* The dialog closed by its parent while no detail is shown.
CloseList == selectedNotification = NoSelection /\ CloseDialog

DetailQuiet ==
    /\ selectedNotification = NoSelection
    /\ resolutionNotes = <<>>
    /\ ops = <<>>
    /\ lastOp = NoOpEnd

StoreAllPending == store = [id \in NotificationIds |-> "pending"]

\* ------------------------------------------------ VendorErrorTracker

\* The values an operation can reject with, by what the tracker reads from
\* them: an Error, an error object carrying an HTTP status, a string, and
\* null or undefined (a bare reject()).
RaisedValues == {"Error", "ApiError", "string", "null", "undefined"}

\* Reading a property (error.code, vendorErrorTracker.ts:143) of null or
\* undefined throws a TypeError.
PropertyReadThrows(v) == v \in {"null", "undefined"}

\* The values trackError can be handed as its error, by what classifying them
\* reads: a TrackedError (type and message), an Error (message, no type), an
\* object without a message, and values that are no objects.
ErrorValues == {"TrackedError", "Error", "noMessage", "string", "null"}

\* The errors of the declared shape, TrackedError | Error
\* (vendorErrorTracker.ts:21-26, 76): they carry a message.
WellFormedErrors == {"TrackedError", "Error"}

\* Building the notification (vendorErrorTracker.ts:83-97) starts with
\* getErrorType (234-241): 'type' in error throws a TypeError on a value that
\* is no object, and error.message.toLowerCase() throws on an object without
\* a type and without a message.
ClassifyThrows(e) == e \notin WellFormedErrors

TrackErrorRethrows(failed) == [kind |-> "rejected", value |-> failed]

\* The catch of trackError (vendorErrorTracker.ts:126-129): whatever failed in
\* the try is logged and the promise resolves.
TrackErrorCatch(failed) == [kind |-> "resolved", value |-> "undefined"]

TrackingOnWithoutIdentity == tracked.enabled

\* The guard of trackError (vendorErrorTracker.ts:79-81).
TrackingOn == tracked.enabled /\ tracked.vendorId /\ tracked.vendorName

NoResult == [kind |-> "none", value |-> "none"]

\* setEnabled (vendorErrorTracker.ts:59-61).
SetEnabled(enabled) ==
    /\ tracked.enabled # enabled
    /\ tracked' = [tracked EXCEPT !.enabled = enabled]
    /\ UNCHANGED notTrackerVars

\* updateVendorInfo (vendorErrorTracker.ts:66-69).
UpdateVendorInfo ==
    /\ ~(tracked.vendorId /\ tracked.vendorName)
    /\ tracked' = [tracked EXCEPT !.vendorId = TRUE, !.vendorName = TRUE]
    /\ UNCHANGED notTrackerVars

\* The function createTrackedApiCall returns, called: it awaits apiFunction
\* (vendorErrorTracker.ts:437-439).
TrackedCallBegins ==
    /\ tracked.pc = "idle"
    /\ tracked' = [tracked EXCEPT !.pc = "api", !.raised = "none",
                                  !.create = "none", !.result = NoResult,
                                  !.entry = "wrapped", !.error = "none",
                                  !.known = FALSE, !.creates = 0]
    /\ UNCHANGED notTrackerVars

\* apiFunction settles. Resolved: its value is returned. Rejected with v: the
\* catch awaits trackApiError (vendorErrorTracker.ts:440-442, 136-154), which
\* reads v's properties and calls trackError (74-131); trackError returns at
\* once when tracking is off and otherwise awaits createNotification inside
\* its try.
ApiSettles(r, v) ==
    /\ tracked.pc = "api"
    /\ IF r = "ok"
       THEN tracked' = [tracked EXCEPT !.pc = "done",
                           !.result = [kind |-> "resolved", value |-> "value"]]
       ELSE IF PropertyReadThrows(v)
       THEN tracked' = [tracked EXCEPT !.pc = "done", !.raised = v,
                           !.result = [kind |-> "rejected", value |-> "TypeError"]]
       ELSE IF ~TrackingOn
       THEN tracked' = [tracked EXCEPT !.pc = "done", !.raised = v,
                           !.result = [kind |-> "rejected", value |-> v]]
       ELSE tracked' = [tracked EXCEPT !.pc = "create", !.raised = v,
                                       !.creates = 1]
    /\ UNCHANGED notTrackerVars

\* trackError called directly (vendorErrorTracker.ts:74-131): it returns at
\* once when tracking is off (79-81); otherwise it builds the notification and
\* calls createNotification in the same turn (83-116), and a throw while
\* building goes to the catch with nothing submitted.
TrackError(e) ==
    /\ tracked.pc = "idle"
    /\ LET begun == [tracked EXCEPT !.raised = "none", !.create = "none",
                         !.entry = "track", !.error = e, !.creates = 0,
                         !.known = tracked.enabled /\ tracked.vendorId
                                      /\ tracked.vendorName]
       IN  IF ~TrackingOn
           THEN tracked' = [begun EXCEPT !.pc = "done",
                    !.result = [kind |-> "resolved", value |-> "undefined"]]
           ELSE IF ClassifyThrows(e)
           THEN tracked' = [begun EXCEPT !.pc = "done",
                                         !.result = TrackErrorCatch("TypeError")]
           ELSE tracked' = [begun EXCEPT !.pc = "create", !.creates = 1,
                                         !.result = NoResult]
    /\ UNCHANGED notTrackerVars

\* createNotification settles (vendorErrorTracker.ts:99-130): a rejection is
\* caught and logged. trackError's promise resolves; the wrapper, when it was
\* the caller, then rethrows what the operation raised (443).
CreateSettles(r) ==
    /\ tracked.pc = "create"
    /\ tracked' = [tracked EXCEPT !.pc = "done", !.create = r,
                      !.result =
                          IF tracked.entry = "wrapped"
                          THEN [kind |-> "rejected", value |-> tracked.raised]
                          ELSE IF r = "throw" THEN TrackErrorCatch("create")
                          ELSE [kind |-> "resolved", value |-> "undefined"]]
    /\ UNCHANGED notTrackerVars

\* The caller has its result; the wrapper can be called again.
TrackedCallReturns ==
    /\ tracked.pc = "done"
    /\ tracked' = [tracked EXCEPT !.pc = "idle"]
    /\ UNCHANGED notTrackerVars

\* No tracked call under way; identity as the push and dialog sides need it.
TrackerQuiet ==
    tracked = [enabled |-> TRUE, vendorId |-> FALSE, vendorName |-> FALSE,
               pc |-> "idle", raised |-> "none", create |-> "none",
               result |-> NoResult, entry |-> "none", error |-> "none",
               known |-> FALSE, creates |-> 0]

\* The tracker after construction (vendorErrorTracker.ts:27-54): enabled, with
\* whatever identity user_data in localStorage gave.
TrackerInit ==
    \E id \in BOOLEAN, name \in BOOLEAN :
        tracked = [enabled |-> TRUE, vendorId |-> id, vendorName |-> name,
                   pc |-> "idle", raised |-> "none", create |-> "none",
                   result |-> NoResult, entry |-> "none", error |-> "none",
                   known |-> FALSE, creates |-> 0]

\* ------------------------------------------------ texts
\* A string is the sequence of its characters, so that toLowerCase, includes
\* and template concatenation are computed as the code computes them.

\* String.prototype.toLowerCase.
ToLowerCase(s) ==
    LET upperCase ==
            <<"A", "B", "C", "D", "E", "F", "G", "H", "I", "J", "K", "L", "M",
              "N", "O", "P", "Q", "R", "S", "T", "U", "V", "W", "X", "Y", "Z">>
        lowerCase ==
            <<"a", "b", "c", "d", "e", "f", "g", "h", "i", "j", "k", "l", "m",
              "n", "o", "p", "q", "r", "s", "t", "u", "v", "w", "x", "y", "z">>
    IN  [i \in 1..Len(s) |->
            IF \E k \in 1..26 : upperCase[k] = s[i]
            THEN lowerCase[CHOOSE k \in 1..26 : upperCase[k] = s[i]]
            ELSE s[i]]

\* String.prototype.includes.
Includes(s, keyword) ==
    \E i \in 0..(Len(s) - Len(keyword)) :
        SubSeq(s, i + 1, i + Len(keyword)) = keyword

\* String.prototype.endsWith.
EndsWith(s, suffix) ==
    /\ Len(suffix) <= Len(s)
    /\ SubSeq(s, Len(s) - Len(suffix) + 1, Len(s)) = suffix

\* The operation identifiers (vendorErrorTracker.ts:313-320, 364-383), and
\* sync_inventory, which no table of the tracker lists.
Op ==
    [claim_order |->
         <<"c", "l", "a", "i", "m", "_", "o", "r", "d", "e", "r">>,
     bulk_claim_orders |->
         <<"b", "u", "l", "k", "_", "c", "l", "a", "i", "m", "_", "o", "r",
         "d", "e", "r", "s">>,
     reverse_order |->
         <<"r", "e", "v", "e", "r", "s", "e", "_", "o", "r", "d", "e",
         "r">>,
     bulk_reverse_orders |->
         <<"b", "u", "l", "k", "_", "r", "e", "v", "e", "r", "s", "e", "_",
         "o", "r", "d", "e", "r", "s">>,
     mark_ready |-> <<"m", "a", "r", "k", "_", "r", "e", "a", "d", "y">>,
     bulk_mark_ready |->
         <<"b", "u", "l", "k", "_", "m", "a", "r", "k", "_", "r", "e", "a",
         "d", "y">>,
     download_label |->
         <<"d", "o", "w", "n", "l", "o", "a", "d", "_", "l", "a", "b", "e",
         "l">>,
     bulk_download_labels |->
         <<"b", "u", "l", "k", "_", "d", "o", "w", "n", "l", "o", "a", "d",
         "_", "l", "a", "b", "e", "l", "s">>,
     fetch_orders |->
         <<"f", "e", "t", "c", "h", "_", "o", "r", "d", "e", "r", "s">>,
     refresh_orders |->
         <<"r", "e", "f", "r", "e", "s", "h", "_", "o", "r", "d", "e", "r",
         "s">>,
     fetch_grouped_orders |->
         <<"f", "e", "t", "c", "h", "_", "g", "r", "o", "u", "p", "e", "d",
         "_", "o", "r", "d", "e", "r", "s">>,
     fetch_payments |->
         <<"f", "e", "t", "c", "h", "_", "p", "a", "y", "m", "e", "n", "t",
         "s">>,
     fetch_settlements |->
         <<"f", "e", "t", "c", "h", "_", "s", "e", "t", "t", "l", "e", "m",
         "e", "n", "t", "s">>,
     fetch_transactions |->
         <<"f", "e", "t", "c", "h", "_", "t", "r", "a", "n", "s", "a", "c",
         "t", "i", "o", "n", "s">>,
     create_settlement_request |->
         <<"c", "r", "e", "a", "t", "e", "_", "s", "e", "t", "t", "l", "e",
         "m", "e", "n", "t", "_", "r", "e", "q", "u", "e", "s", "t">>,
     upload_payment_proof |->
         <<"u", "p", "l", "o", "a", "d", "_", "p", "a", "y", "m", "e", "n",
         "t", "_", "p", "r", "o", "o", "f">>,
     fetch_address |->
         <<"f", "e", "t", "c", "h", "_", "a", "d", "d", "r", "e", "s",
         "s">>,
     update_address |->
         <<"u", "p", "d", "a", "t", "e", "_", "a", "d", "d", "r", "e", "s",
         "s">>,
     sync_inventory |->
         <<"s", "y", "n", "c", "_", "i", "n", "v", "e", "n", "t", "o", "r",
         "y">>]

\* The keywords of getErrorType (vendorErrorTracker.ts:243-255) and of
\* getSeverity (349-353).
Kw ==
    [network |-> <<"n", "e", "t", "w", "o", "r", "k">>,
     fetch |-> <<"f", "e", "t", "c", "h">>,
     auth |-> <<"a", "u", "t", "h">>,
     unauthorized |->
         <<"u", "n", "a", "u", "t", "h", "o", "r", "i", "z", "e", "d">>,
     forbidden |-> <<"f", "o", "r", "b", "i", "d", "d", "e", "n">>,
     validation |-> <<"v", "a", "l", "i", "d", "a", "t", "i", "o", "n">>,
     invalid |-> <<"i", "n", "v", "a", "l", "i", "d">>,
     timeout |-> <<"t", "i", "m", "e", "o", "u", "t">>,
     critical |-> <<"c", "r", "i", "t", "i", "c", "a", "l">>,
     fatal |-> <<"f", "a", "t", "a", "l">>,
     failed |-> <<"f", "a", "i", "l", "e", "d">>,
     error |-> <<"e", "r", "r", "o", "r">>]

\* Pieces of the templates of getTitle and getMessage
\* (vendorErrorTracker.ts:386-388, 418-424).
Txt ==
    [Failed |-> <<" ", "F", "a", "i", "l", "e", "d">>,
     Order |-> <<" ", "-", " ", "O", "r", "d", "e", "r", " ">>,
     VendorEncountered |->
         <<"V", "e", "n", "d", "o", "r", " ", "e", "n", "c", "o", "u", "n",
         "t", "e", "r", "e", "d", " ", "a", "n", " ", "e", "r", "r", "o",
         "r", " ", "d", "u", "r", "i", "n", "g", " ">>,
     ForOrder |-> <<" ", "f", "o", "r", " ", "o", "r", "d", "e", "r", " ">>,
     Error |-> <<".", " ", "E", "r", "r", "o", "r", ":", " ">>]

\* operationNames of getTitle (vendorErrorTracker.ts:364-383), as pairs.
TitleOperationNames ==
    <<<<Op.claim_order,
          <<"O", "r", "d", "e", "r", " ", "C", "l", "a", "i", "m">>>>,
       <<Op.bulk_claim_orders,
          <<"B", "u", "l", "k", " ", "O", "r", "d", "e", "r", " ",
          "C", "l", "a", "i", "m">>>>,
       <<Op.reverse_order,
          <<"O", "r", "d", "e", "r", " ", "R", "e", "v", "e", "r",
          "s", "e">>>>,
       <<Op.bulk_reverse_orders,
          <<"B", "u", "l", "k", " ", "O", "r", "d", "e", "r", " ",
          "R", "e", "v", "e", "r", "s", "e">>>>,
       <<Op.mark_ready,
          <<"M", "a", "r", "k", " ", "O", "r", "d", "e", "r", " ",
          "R", "e", "a", "d", "y">>>>,
       <<Op.bulk_mark_ready,
          <<"B", "u", "l", "k", " ", "M", "a", "r", "k", " ", "O",
          "r", "d", "e", "r", "s", " ", "R", "e", "a", "d", "y">>>>,
       <<Op.download_label,
          <<"L", "a", "b", "e", "l", " ", "D", "o", "w", "n", "l",
          "o", "a", "d">>>>,
       <<Op.bulk_download_labels,
          <<"B", "u", "l", "k", " ", "L", "a", "b", "e", "l", " ",
          "D", "o", "w", "n", "l", "o", "a", "d">>>>,
       <<Op.fetch_orders,
          <<"O", "r", "d", "e", "r", "s", " ", "F", "e", "t", "c",
          "h">>>>,
       <<Op.refresh_orders,
          <<"O", "r", "d", "e", "r", "s", " ", "R", "e", "f", "r",
          "e", "s", "h">>>>,
       <<Op.fetch_grouped_orders,
          <<"G", "r", "o", "u", "p", "e", "d", " ", "O", "r", "d",
          "e", "r", "s", " ", "F", "e", "t", "c", "h">>>>,
       <<Op.fetch_payments,
          <<"P", "a", "y", "m", "e", "n", "t", "s", " ", "F", "e",
          "t", "c", "h">>>>,
       <<Op.fetch_settlements,
          <<"S", "e", "t", "t", "l", "e", "m", "e", "n", "t", "s",
          " ", "F", "e", "t", "c", "h">>>>,
       <<Op.fetch_transactions,
          <<"T", "r", "a", "n", "s", "a", "c", "t", "i", "o", "n",
          "s", " ", "F", "e", "t", "c", "h">>>>,
       <<Op.create_settlement_request,
          <<"S", "e", "t", "t", "l", "e", "m", "e", "n", "t", " ",
          "R", "e", "q", "u", "e", "s", "t">>>>,
       <<Op.upload_payment_proof,
          <<"P", "a", "y", "m", "e", "n", "t", " ", "P", "r", "o",
          "o", "f", " ", "U", "p", "l", "o", "a", "d">>>>,
       <<Op.fetch_address,
          <<"A", "d", "d", "r", "e", "s", "s", " ", "F", "e", "t",
          "c", "h">>>>,
       <<Op.update_address,
          <<"A", "d", "d", "r", "e", "s", "s", " ", "U", "p", "d",
          "a", "t", "e">>>>>>

\* operationNames of getMessage (vendorErrorTracker.ts:395-414), as pairs.
MessageOperationNames ==
    <<<<Op.claim_order,
          <<"o", "r", "d", "e", "r", " ", "c", "l", "a", "i", "m">>>>,
       <<Op.bulk_claim_orders,
          <<"b", "u", "l", "k", " ", "o", "r", "d", "e", "r", " ",
          "c", "l", "a", "i", "m">>>>,
       <<Op.reverse_order,
          <<"o", "r", "d", "e", "r", " ", "r", "e", "v", "e", "r",
          "s", "e">>>>,
       <<Op.bulk_reverse_orders,
          <<"b", "u", "l", "k", " ", "o", "r", "d", "e", "r", " ",
          "r", "e", "v", "e", "r", "s", "e">>>>,
       <<Op.mark_ready,
          <<"m", "a", "r", "k", " ", "o", "r", "d", "e", "r", " ",
          "r", "e", "a", "d", "y">>>>,
       <<Op.bulk_mark_ready,
          <<"b", "u", "l", "k", " ", "m", "a", "r", "k", " ", "o",
          "r", "d", "e", "r", "s", " ", "r", "e", "a", "d", "y">>>>,
       <<Op.download_label,
          <<"l", "a", "b", "e", "l", " ", "d", "o", "w", "n", "l",
          "o", "a", "d">>>>,
       <<Op.bulk_download_labels,
          <<"b", "u", "l", "k", " ", "l", "a", "b", "e", "l", " ",
          "d", "o", "w", "n", "l", "o", "a", "d">>>>,
       <<Op.fetch_orders,
          <<"o", "r", "d", "e", "r", "s", " ", "f", "e", "t", "c",
          "h">>>>,
       <<Op.refresh_orders,
          <<"o", "r", "d", "e", "r", "s", " ", "r", "e", "f", "r",
          "e", "s", "h">>>>,
       <<Op.fetch_grouped_orders,
          <<"g", "r", "o", "u", "p", "e", "d", " ", "o", "r", "d",
          "e", "r", "s", " ", "f", "e", "t", "c", "h">>>>,
       <<Op.fetch_payments,
          <<"p", "a", "y", "m", "e", "n", "t", "s", " ", "f", "e",
          "t", "c", "h">>>>,
       <<Op.fetch_settlements,
          <<"s", "e", "t", "t", "l", "e", "m", "e", "n", "t", "s",
          " ", "f", "e", "t", "c", "h">>>>,
       <<Op.fetch_transactions,
          <<"t", "r", "a", "n", "s", "a", "c", "t", "i", "o", "n",
          "s", " ", "f", "e", "t", "c", "h">>>>,
       <<Op.create_settlement_request,
          <<"s", "e", "t", "t", "l", "e", "m", "e", "n", "t", " ",
          "r", "e", "q", "u", "e", "s", "t", " ", "c", "r", "e", "a",
          "t", "i", "o", "n">>>>,
       <<Op.upload_payment_proof,
          <<"p", "a", "y", "m", "e", "n", "t", " ", "p", "r", "o",
          "o", "f", " ", "u", "p", "l", "o", "a", "d">>>>,
       <<Op.fetch_address,
          <<"a", "d", "d", "r", "e", "s", "s", " ", "f", "e", "t",
          "c", "h">>>>,
       <<Op.update_address,
          <<"a", "d", "d", "r", "e", "s", "s", " ", "u", "p", "d",
          "a", "t", "e">>>>>>

\* operationNames[operation] || operation (vendorErrorTracker.ts:385, 416).
OperationName(names, operation) ==
    IF \E i \in 1..Len(names) : names[i][1] = operation
    THEN names[CHOOSE i \in 1..Len(names) : names[i][1] = operation][2]
    ELSE operation

\* Error messages the classification is applied to: what fetch, axios and the
\* backend produce, chosen so that each keyword is met in a message, in
\* capitals, next to another keyword, and not at all.
Msg ==
    [Status500 |->
         <<"R", "e", "q", "u", "e", "s", "t", " ", "f", "a", "i", "l", "e",
         "d", " ", "w", "i", "t", "h", " ", "s", "t", "a", "t", "u", "s",
         " ", "5", "0", "0">>,
     RequestTimeout |->
         <<"r", "e", "q", "u", "e", "s", "t", " ", "t", "i", "m", "e", "o",
         "u", "t">>,
     FailedToFetch |->
         <<"F", "a", "i", "l", "e", "d", " ", "t", "o", " ", "f", "e", "t",
         "c", "h">>,
     NetworkError |->
         <<"N", "e", "t", "w", "o", "r", "k", " ", "E", "r", "r", "o",
         "r">>,
     Unauthorized |->
         <<"U", "n", "a", "u", "t", "h", "o", "r", "i", "z", "e", "d">>,
     Forbidden |->
         <<"A", "c", "c", "e", "s", "s", " ", "f", "o", "r", "b", "i", "d",
         "d", "e", "n">>,
     ValidationFailed |->
         <<"v", "a", "l", "i", "d", "a", "t", "i", "o", "n", " ", "f", "a",
         "i", "l", "e", "d">>,
     InvalidInput |->
         <<"I", "n", "v", "a", "l", "i", "d", " ", "i", "n", "p", "u",
         "t">>,
     AuthExpired |->
         <<"a", "u", "t", "h", " ", "t", "o", "k", "e", "n", " ", "e", "x",
         "p", "i", "r", "e", "d">>,
     NetworkTimeout |->
         <<"n", "e", "t", "w", "o", "r", "k", " ", "t", "i", "m", "e", "o",
         "u", "t">>,
     Fatal |->
         <<"F", "a", "t", "a", "l", ":", " ", "o", "u", "t", " ", "o", "f",
         " ", "m", "e", "m", "o", "r", "y">>,
     CriticalError |->
         <<"c", "r", "i", "t", "i", "c", "a", "l", " ", "e", "r", "r", "o",
         "r">>,
     WentWrong |->
         <<"S", "o", "m", "e", "t", "h", "i", "n", "g", " ", "w", "e", "n",
         "t", " ", "w", "r", "o", "n", "g">>,
     Empty |-> <<>>]

\* Error names: Error.prototype.name of the built-in and of library errors.
Name ==
    [Error |-> <<"E", "r", "r", "o", "r">>,
     TypeError |-> <<"T", "y", "p", "e", "E", "r", "r", "o", "r">>,
     NetworkError |->
         <<"N", "e", "t", "w", "o", "r", "k", "E", "r", "r", "o", "r">>,
     AuthError |-> <<"A", "u", "t", "h", "E", "r", "r", "o", "r">>,
     ValidationError |->
         <<"V", "a", "l", "i", "d", "a", "t", "i", "o", "n", "E", "r", "r",
         "o", "r">>,
     TimeoutError |->
         <<"T", "i", "m", "e", "o", "u", "t", "E", "r", "r", "o", "r">>,
     AbortError |-> <<"A", "b", "o", "r", "t", "E", "r", "r", "o", "r">>]

\* A TrackedError has no name: name?.toLowerCase() || "" gives the empty string.
NoName == <<>>

\* context.orderId: absent, or the id of an order.
OrderId == [absent |-> <<>>, given |-> <<"1", "2", "3">>]

\* error.type is absent.
NoType == "absent"

CriticalOperationsWithoutReverse == {Op.claim_order, Op.bulk_claim_orders}

\* criticalOperations (vendorErrorTracker.ts:313-315).
CriticalOperations ==
    {Op.claim_order, Op.bulk_claim_orders, Op.reverse_order, Op.bulk_reverse_orders}

\* highSeverityOperations (vendorErrorTracker.ts:318-320).
HighSeverityOperations ==
    {Op.mark_ready, Op.bulk_mark_ready, Op.download_label, Op.bulk_download_labels}

\* criticalErrorTypes and highErrorTypes (vendorErrorTracker.ts:323-329).
ErrorTypeLists ==
    [critical |-> {"NETWORK_ERROR", "TIMEOUT_ERROR", "AUTHENTICATION_ERROR",
                   "PERMISSION_ERROR"},
     high |-> {"VALIDATION_ERROR", "FILE_ERROR", "DATA_ERROR"}]

GetErrorTypeEitherField(error) ==
    IF error.type # NoType THEN error.type
    ELSE LET errorName == ToLowerCase(error.name)
             errorMessage == ToLowerCase(error.message)
             Either(keyword) == \/ Includes(errorName, keyword)
                                \/ Includes(errorMessage, keyword)
         IN  IF Either(Kw.network) THEN "NETWORK_ERROR"
             ELSE IF Either(Kw.auth) \/ Either(Kw.unauthorized) \/ Either(Kw.forbidden)
             THEN "AUTHENTICATION_ERROR"
             ELSE IF Either(Kw.validation) \/ Either(Kw.invalid)
             THEN "VALIDATION_ERROR"
             ELSE IF Either(Kw.timeout) THEN "TIMEOUT_ERROR"
             ELSE "UNKNOWN_ERROR"

\* getErrorType (vendorErrorTracker.ts:234-260).
GetErrorType(error) ==
    IF error.type # NoType THEN error.type
    ELSE LET errorName == ToLowerCase(error.name)
             errorMessage == ToLowerCase(error.message)
         IN  IF \/ Includes(errorName, Kw.network)
                \/ Includes(errorMessage, Kw.fetch)
                \/ Includes(errorMessage, Kw.network)
             THEN "NETWORK_ERROR"
             ELSE IF \/ Includes(errorName, Kw.auth)
                     \/ Includes(errorMessage, Kw.unauthorized)
                     \/ Includes(errorMessage, Kw.forbidden)
             THEN "AUTHENTICATION_ERROR"
             ELSE IF \/ Includes(errorName, Kw.validation)
                     \/ Includes(errorMessage, Kw.invalid)
             THEN "VALIDATION_ERROR"
             ELSE IF \/ Includes(errorName, Kw.timeout)
                     \/ Includes(errorMessage, Kw.timeout)
             THEN "TIMEOUT_ERROR"
             ELSE "UNKNOWN_ERROR"

GetSeverityOperationsFirst(operation, error) ==
    IF operation \in CriticalOperations THEN "critical"
    ELSE IF operation \in HighSeverityOperations THEN "high"
    ELSE IF error.type \in ErrorTypeLists.critical THEN "critical"
    ELSE IF error.type \in ErrorTypeLists.high THEN "high"
    ELSE LET errorMessage == ToLowerCase(error.message)
         IN  IF Includes(errorMessage, Kw.critical) \/ Includes(errorMessage, Kw.fatal)
             THEN "critical"
             ELSE IF Includes(errorMessage, Kw.failed) \/ Includes(errorMessage, Kw.error)
             THEN "high"
             ELSE "medium"

\* getSeverity (vendorErrorTracker.ts:311-358).
GetSeverity(operation, error) ==
    IF error.type \in ErrorTypeLists.critical THEN "critical"
    ELSE IF error.type \in ErrorTypeLists.high THEN "high"
    ELSE IF operation \in CriticalOperations THEN "critical"
    ELSE IF operation \in HighSeverityOperations THEN "high"
    ELSE LET errorMessage == ToLowerCase(error.message)
         IN  IF Includes(errorMessage, Kw.critical) \/ Includes(errorMessage, Kw.fatal)
             THEN "critical"
             ELSE IF Includes(errorMessage, Kw.failed) \/ Includes(errorMessage, Kw.error)
             THEN "high"
             ELSE "medium"

GetTitleWithoutOrder(operation, error, context) ==
    OperationName(TitleOperationNames, operation) \o Txt.Failed

\* getTitle (vendorErrorTracker.ts:363-389); an empty orderId is falsy.
GetTitle(operation, error, context) ==
    LET operationName == OperationName(TitleOperationNames, operation)
        orderInfo == IF context.orderId # OrderId.absent
                     THEN Txt.Order \o context.orderId
                     ELSE <<>>
    IN  operationName \o Txt.Failed \o orderInfo

\* getMessage (vendorErrorTracker.ts:394-427).
GetMessage(operation, error, context) ==
    LET operationName == OperationName(MessageOperationNames, operation)
        forOrder == IF context.orderId # OrderId.absent
                    THEN Txt.ForOrder \o context.orderId
                    ELSE <<>>
    IN  Txt.VendorEncountered \o operationName \o forOrder
            \o Txt.Error \o error.message

\* errorData (vendorErrorTracker.ts:84-89), without code and stack.
ErrorData(error) == [type |-> GetErrorType(error), message |-> error.message]

\* The fields of the createNotification call that are computed from the
\* inputs (vendorErrorTracker.ts:99-110).
NotificationFor(operation, error, context) ==
    LET errorData == ErrorData(error)
    IN  [error_type |-> errorData.type,
         severity |-> GetSeverity(operation, errorData),
         title |-> GetTitle(operation, errorData, context),
         message |-> GetMessage(operation, errorData, context)]

\* The operations the classification is applied to.
TrackedOperations ==
    {Op.claim_order, Op.bulk_claim_orders, Op.reverse_order, Op.bulk_reverse_orders,
     Op.mark_ready, Op.bulk_mark_ready, Op.download_label, Op.bulk_download_labels,
     Op.fetch_orders, Op.sync_inventory}

\* The values of TrackedError.type the tracker's helpers supply
\* (vendorErrorTracker.ts:142, 165, 186, 204, 222) and getSeverity lists.
SuppliedTypes ==
    {"NETWORK_ERROR", "TIMEOUT_ERROR", "AUTHENTICATION_ERROR",
     "PERMISSION_ERROR", "VALIDATION_ERROR", "FILE_ERROR", "DATA_ERROR",
     "API_ERROR", "UNKNOWN_ERROR"}

\* The errors handed to trackError (vendorErrorTracker.ts:76): a TrackedError
\* with its type, or an Error (or bare object) with a name and no type.
ErrorInputs ==
    LET messages == {Msg[k] : k \in DOMAIN Msg}
        names == {NoName} \cup {Name[k] : k \in DOMAIN Name}
    IN  {[type |-> t, name |-> NoName, message |-> m] :
            t \in SuppliedTypes, m \in messages}
        \cup {[type |-> NoType, name |-> n, message |-> m] :
                n \in names, m \in messages}

\* The texts of handlePushSubscribe: what it throws to its own catch
\* (part_000:210, 218, 253), the fallback of error.message (264), and the
\* keywords and the guidance of the catch (267-270).
Enable ==
    [noNotificationApi |->
         <<"T", "h", "i", "s", " ", "b", "r", "o", "w", "s", "e", "r", " ",
         "d", "o", "e", "s", " ", "n", "o", "t", " ", "s", "u", "p", "p",
         "o", "r", "t", " ", "n", "o", "t", "i", "f", "i", "c", "a", "t",
         "i", "o", "n", "s">>,
     permissionWasDenied |->
         <<"N", "o", "t", "i", "f", "i", "c", "a", "t", "i", "o", "n", " ",
         "p", "e", "r", "m", "i", "s", "s", "i", "o", "n", " ", "w", "a",
         "s", " ", "d", "e", "n", "i", "e", "d", ".", " ", "P", "l", "e",
         "a", "s", "e", " ", "e", "n", "a", "b", "l", "e", " ", "n", "o",
         "t", "i", "f", "i", "c", "a", "t", "i", "o", "n", "s", " ", "i",
         "n", " ", "y", "o", "u", "r", " ", "b", "r", "o", "w", "s", "e",
         "r", " ", "s", "e", "t", "t", "i", "n", "g", "s", ".">>,
     deniedByUser |->
         <<"N", "o", "t", "i", "f", "i", "c", "a", "t", "i", "o", "n", " ",
         "p", "e", "r", "m", "i", "s", "s", "i", "o", "n", " ", "d", "e",
         "n", "i", "e", "d", " ", "b", "y", " ", "u", "s", "e", "r">>,
     failedToEnable |->
         <<"F", "a", "i", "l", "e", "d", " ", "t", "o", " ", "e", "n", "a",
         "b", "l", "e", " ", "n", "o", "t", "i", "f", "i", "c", "a", "t",
         "i", "o", "n", "s">>,
     kwDenied |-> <<"d", "e", "n", "i", "e", "d">>,
     kwNotSupported |->
         <<"n", "o", "t", " ", "s", "u", "p", "p", "o", "r", "t", "e",
         "d">>,
     guidanceSettings |->
         <<"N", "o", "t", "i", "f", "i", "c", "a", "t", "i", "o", "n", " ",
         "p", "e", "r", "m", "i", "s", "s", "i", "o", "n", " ", "w", "a",
         "s", " ", "d", "e", "n", "i", "e", "d", ".", " ", "P", "l", "e",
         "a", "s", "e", " ", "e", "n", "a", "b", "l", "e", " ", "n", "o",
         "t", "i", "f", "i", "c", "a", "t", "i", "o", "n", "s", " ", "i",
         "n", " ", "y", "o", "u", "r", " ", "b", "r", "o", "w", "s", "e",
         "r", " ", "s", "e", "t", "t", "i", "n", "g", "s", ".">>,
     guidanceModernBrowser |->
         <<"Y", "o", "u", "r", " ", "b", "r", "o", "w", "s", "e", "r", " ",
         "d", "o", "e", "s", " ", "n", "o", "t", " ", "s", "u", "p", "p",
         "o", "r", "t", " ", "n", "o", "t", "i", "f", "i", "c", "a", "t",
         "i", "o", "n", "s", ".", " ", "P", "l", "e", "a", "s", "e", " ",
         "u", "s", "e", " ", "a", " ", "m", "o", "d", "e", "r", "n", " ",
         "b", "r", "o", "w", "s", "e", "r", " ", "l", "i", "k", "e", " ",
         "C", "h", "r", "o", "m", "e", ",", " ", "F", "i", "r", "e", "f",
         "o", "x", ",", " ", "o", "r", " ", "S", "a", "f", "a", "r", "i",
         ".">>]

\* Why handlePushSubscribe fails: no Notification API in the window (209-211),
\* permission already denied (217-219), permission declined at the
\* fallback's prompt (241-254).
EnableFailures == {"unsupported", "denied", "declined"}

EnableFailureMessage(failure) ==
    CASE failure = "unsupported" -> Enable.noNotificationApi
      [] failure = "denied" -> Enable.permissionWasDenied
      [] failure = "declined" -> Enable.deniedByUser

\* The description of the error toast (part_000:264-271).
HumanizedMessage(message) ==
    IF Includes(message, Enable.kwDenied) THEN Enable.guidanceSettings
    ELSE IF Includes(message, Enable.kwNotSupported) THEN Enable.guidanceModernBrowser
    ELSE IF message = <<>> THEN Enable.failedToEnable
    ELSE message

\* VAPID public keys as the backend sends them, URL-safe base64 without
\* padding (vendorErrorTracker.ts:795): three uncompressed P-256 points of
\* 87 characters, and short strings of every length the padding tells apart.
VapidKeys ==
    [webPush |->
         <<"B", "E", "l", "6", "2", "i", "U", "Y", "g", "U", "i", "v", "x",
         "I", "k", "v", "6", "9", "y", "V", "i", "E", "u", "i", "B", "I",
         "a", "-", "I", "b", "9", "-", "S", "k", "v", "M", "e", "A", "t",
         "A", "3", "L", "F", "g", "D", "z", "k", "r", "x", "Z", "J", "j",
         "S", "g", "S", "n", "f", "c", "k", "j", "B", "J", "u", "B", "k",
         "r", "3", "q", "B", "U", "Y", "I", "H", "B", "Q", "F", "L", "X",
         "Y", "p", "5", "N", "k", "s", "h", "8", "U">>,
     generator |->
         <<"B", "G", "s", "X", "0", "f", "L", "h", "L", "E", "J", "H", "-",
         "L", "z", "m", "5", "W", "O", "k", "Q", "P", "J", "3", "A", "3",
         "2", "B", "L", "e", "s", "z", "o", "P", "S", "h", "O", "U", "X",
         "Y", "m", "M", "K", "W", "T", "-", "N", "C", "4", "v", "4", "a",
         "f", "5", "u", "O", "5", "-", "t", "K", "f", "A", "-", "e", "F",
         "i", "v", "O", "M", "1", "d", "r", "M", "V", "7", "O", "y", "7",
         "Z", "A", "a", "D", "e", "_", "U", "f", "U">>,
     sixfold |->
         <<"B", "L", "A", "a", "F", "y", "p", "2", "p", "G", "A", "s", "k",
         "t", "M", "k", "L", "L", "i", "X", "3", "e", "M", "C", "T", "H",
         "Q", "N", "6", "7", "I", "V", "t", "M", "a", "w", "q", "u", "k",
         "8", "I", "p", "G", "p", "6", "F", "w", "Q", "d", "D", "I", "3",
         "2", "t", "V", "v", "7", "A", "4", "t", "-", "6", "c", "D", "e",
         "R", "w", "A", "9", "3", "A", "c", "f", "h", "a", "9", "_", "X",
         "x", "I", "U", "4", "_", "H", "f", "-", "I">>,
     two |-> <<"-", "_">>,
     three |-> <<"a", "-", "_">>,
     four |-> <<"a", "b", "-", "_">>,
     six |-> <<"_", "-", "_", "-", "_", "w">>,
     seven |-> <<"Z", "m", "9", "v", "Y", "m", "E">>,
     eight |-> <<"Z", "m", "9", "v", "Y", "m", "F", "y">>]

\* window.atob (vendorErrorTracker.ts:801), the forgiving base64 decoding of
\* the HTML standard: up to two trailing "=" of a string whose length is a
\* multiple of 4 are dropped, a remaining length of 1 modulo 4 or a character
\* outside the alphabet throws, and every 4 characters give 3 bytes, a rest
\* of 3 gives 2 and a rest of 2 gives 1. The data are the char codes of the
\* result, which the loop copies into the Uint8Array (802-806).
Atob(base64) ==
    LET alphabet ==
            <<"A", "B", "C", "D", "E", "F", "G", "H", "I", "J", "K", "L", "M",
              "N", "O", "P", "Q", "R", "S", "T", "U", "V", "W", "X", "Y", "Z",
              "a", "b", "c", "d", "e", "f", "g", "h", "i", "j", "k", "l", "m",
              "n", "o", "p", "q", "r", "s", "t", "u", "v", "w", "x", "y", "z",
              "0", "1", "2", "3", "4", "5", "6", "7", "8", "9", "+", "/">>
        len == Len(base64)
        data == IF len > 0 /\ len % 4 = 0 /\ base64[len] = "="
                THEN IF base64[len - 1] = "="
                     THEN SubSeq(base64, 1, len - 2)
                     ELSE SubSeq(base64, 1, len - 1)
                ELSE base64
        n == Len(data)
        Valid(c) == \E k \in 1..64 : alphabet[k] = c
        Value(i) == IF i <= n
                    THEN (CHOOSE k \in 1..64 : alphabet[k] = data[i]) - 1
                    ELSE 0
    IN  IF n % 4 = 1 \/ \E i \in 1..n : ~Valid(data[i])
        THEN [error |-> "InvalidCharacterError", bytes |-> <<>>]
        ELSE [error |-> "none", bytes |->
              [j \in 1..((n * 6) \div 8) |->
                 LET first == 4 * ((j - 1) \div 3) + 1
                 IN  CASE (j - 1) % 3 = 0 ->
                            Value(first) * 4 + (Value(first + 1) \div 16)
                       [] (j - 1) % 3 = 1 ->
                            (Value(first + 1) % 16) * 16 + (Value(first + 2) \div 4)
                       [] (j - 1) % 3 = 2 ->
                            (Value(first + 2) % 4) * 64 + Value(first + 3)]]

Base64Unreplaced(padded) == padded

\* .replace(/-/g, '+').replace(/_/g, '/') (vendorErrorTracker.ts:797-799).
Base64Standard(padded) ==
    [i \in 1..Len(padded) |->
        IF padded[i] = "-" THEN "+"
        ELSE IF padded[i] = "_" THEN "/"
        ELSE padded[i]]

\* urlBase64ToUint8Array (vendorErrorTracker.ts:795-808).
UrlBase64ToUint8Array(base64String) ==
    LET padding == [i \in 1..((4 - (Len(base64String) % 4)) % 4) |-> "="]
        base64 == Base64Standard(base64String \o padding)
    IN  Atob(base64)

\* The computations: their inputs before, their inputs and outputs after.
TextInputs ==
    {[fn |-> "track", applied |-> FALSE,
      in |-> [operation |-> op, error |-> e, context |-> [orderId |-> id]],
      out |-> "none"] :
        op \in TrackedOperations, e \in ErrorInputs,
        id \in {OrderId.absent, OrderId.given}}
    \cup {[fn |-> "enable", applied |-> FALSE, in |-> [failure |-> f],
           out |-> "none"] : f \in EnableFailures}
    \cup {[fn |-> "decode", applied |-> FALSE,
           in |-> [name |-> k, base64String |-> VapidKeys[k]],
           out |-> "none"] : k \in DOMAIN VapidKeys}

\* trackError builds the notification it submits (vendorErrorTracker.ts:83-110).
TrackErrorBuilds ==
    /\ classified.fn = "track" /\ ~classified.applied
    /\ classified' = [classified EXCEPT !.applied = TRUE,
                         !.out = NotificationFor(classified.in.operation,
                                                 classified.in.error,
                                                 classified.in.context)]
    /\ UNCHANGED notTextVars

\* handlePushSubscribe fails and shows the error toast (part_000:257-277).
EnableFailureShown ==
    /\ classified.fn = "enable" /\ ~classified.applied
    /\ classified' = [classified EXCEPT !.applied = TRUE,
                         !.out = HumanizedMessage(
                                     EnableFailureMessage(classified.in.failure))]
    /\ UNCHANGED notTextVars

\* subscribe converts the VAPID key for the push manager
\* (vendorErrorTracker.ts:595).
VapidKeyDecoded ==
    /\ classified.fn = "decode" /\ ~classified.applied
    /\ classified' = [classified EXCEPT !.applied = TRUE,
                         !.out = UrlBase64ToUint8Array(classified.in.base64String)]
    /\ UNCHANGED notTextVars

\* Nothing is being computed.
TextQuiet ==
    classified = [fn |-> "none", applied |-> FALSE, in |-> "none", out |-> "none"]

\* ------------------------------------------------ browser and backend

\* 'Notification' in window (part_000:147, 209; simpleNotificationService.ts:27-32).
HasNotification == browser # "none"

\* PushNotificationService.checkSupport (vendorErrorTracker.ts:491-498).
checkSupport == browser = "full"

\* Notification.requestPermission(): a decided permission is returned as it
\* is; an undecided one prompts the user, who grants, denies or dismisses.
PromptAnswers == IF permission = "default"
                 THEN {"granted", "denied", "default"}
                 ELSE {permission}

\* ------------------------------------------------ operations in flight

NoCall == [op |-> "none", caller |-> "none", pc |-> "none", vapid |-> FALSE,
           perm0 |-> "default", sub0 |-> FALSE, held0 |-> FALSE]

\* A subscribe() in flight: who called it, the await it stands at, the branch
\* it took at vendorErrorTracker.ts:574, and what the service and the browser
\* held when it was called.
SubscribeCall(caller, pc) ==
    [op |-> "subscribe", caller |-> caller, pc |-> pc, vapid |-> vapidPublicKey,
     perm0 |-> permission, sub0 |-> isSubscribed, held0 |-> subscription]

\* An unsubscribe() in flight, with what the service held when it was called.
UnsubscribeCall(caller, pc) ==
    [op |-> "unsubscribe", caller |-> caller, pc |-> pc, vapid |-> FALSE,
     perm0 |-> "default", sub0 |-> isSubscribed, held0 |-> subscription]

\* A loadPushStatus in flight; perm0 is its browserPermission (part_000:159).
LoadCall ==
    [op |-> "load", caller |-> "effect", pc |-> "status", vapid |-> FALSE,
     perm0 |-> permission, sub0 |-> FALSE, held0 |-> FALSE]

\* The calls an operation has made by the time it stands at pc: the permission
\* request, the push manager, the backend.
Did(c) ==
    IF c.op = "subscribe"
    THEN CASE c.pc = "handler" -> {}
           [] c.pc = "start" -> {}
           [] c.pc = "fallback" -> {}
           [] c.pc = "perm" -> {"requestPermission"}
           [] c.pc = "pm" -> {"requestPermission", "pushManager"}
           [] c.pc = "backend" -> {"requestPermission", "pushManager", "backend"}
    ELSE IF c.op = "unsubscribe"
    THEN CASE c.pc = "start" -> {}
           [] c.pc = "pm" -> {"pushManager"}
           [] c.pc = "backend" -> {"pushManager", "backend"}
    ELSE IF c.op = "test"
    THEN CASE c.pc = "push" -> {"push"}
           [] c.pc = "simple" -> {"simple"}
           [] OTHER -> {}
    ELSE {}

\* What the step just taken completed: a subscribe(), an unsubscribe() or a
\* loadPushStatus, with where it stood ("handler": still in the dialog's
\* handler; "start": in the service before any await; "fallback": in the
\* handler's fallback to the simple service), how it ended, what it
\* had read when it started and the calls it made. Every other step sets it back to NoEnd, so a state with
\* last.op # "none" is the state the operation left behind.
Ended(c, outcome, error) ==
    [op |-> c.op, caller |-> c.caller, at |-> c.pc, outcome |-> outcome,
     error |-> error, vapid |-> c.vapid, perm0 |-> c.perm0, sub0 |-> c.sub0,
     held0 |-> c.held0, did |-> Did(c)]

NoEnd == Ended(NoCall, "none", "none")

CanStart == Len(calls) < MaxCalls

At(i, op, pc) == i \in 1..Len(calls) /\ calls[i].op = op /\ calls[i].pc = pc

\* ------------------------------------------------ PushNotificationService

\* initialize() after getVapidKey (vendorErrorTracker.ts:506-525). "ok": the
\* response carries the key when one is configured; "refused": success false;
\* "throw": the catch clears the key and isSubscribed.
InitKeySettles(r) ==
    /\ initPc = "getKey"
    /\ IF r = "throw"
       THEN /\ vapidPublicKey' = FALSE
            /\ isSubscribed' = FALSE
            /\ initPc' = "done"
       ELSE /\ vapidPublicKey' = (r = "ok" /\ backendKey)
            /\ isSubscribed' = isSubscribed
            /\ initPc' = "getSub"
    /\ UNCHANGED <<subscription, envVars, isEnabled, mirrorVars, calls>>
    /\ last' = NoEnd
    /\ UNCHANGED <<triageVars, notPushVars>>

\* checkSubscriptionStatus after pushManager.getSubscription()
\* (vendorErrorTracker.ts:533-538); a rejection is caught at 547-550.
InitSubSettles(r) ==
    /\ initPc = "getSub"
    /\ IF r = "ok"
       THEN /\ subscription' = browserSub
            /\ isSubscribed' = browserSub
            /\ initPc' = "status"
       ELSE /\ UNCHANGED <<subscription, isSubscribed>>
            /\ initPc' = "done"
    /\ UNCHANGED <<vapidPublicKey, envVars, isEnabled, mirrorVars, calls>>
    /\ last' = NoEnd
    /\ UNCHANGED <<triageVars, notPushVars>>

\* checkSubscriptionStatus after getPushNotificationStatus
\* (vendorErrorTracker.ts:541-546).
InitStatusSettles(r) ==
    /\ initPc = "status"
    /\ isSubscribed' = IF r = "ok" THEN backendSubscribed ELSE isSubscribed
    /\ initPc' = "done"
    /\ UNCHANGED <<vapidPublicKey, subscription, envVars, isEnabled, mirrorVars,
                   calls>>
    /\ last' = NoEnd
    /\ UNCHANGED <<triageVars, notPushVars>>

\* permission === 'granted' (vendorErrorTracker.ts:578, 588).
PermissionGranted(p) == p = "granted"

\* What the caller of subscribe() does with a rejection: handlePushSubscribe
\* falls back to simpleNotificationService.enable() (part_000:236-241), which
\* awaits Notification.requestPermission(); updatePreference rethrows
\* (vendorErrorTracker.ts:673-676).
AfterReject(cs, i) ==
    IF cs[i].caller = "handler"
    THEN [cs EXCEPT ![i].pc = "fallback"]
    ELSE RemoveAt(cs, i)

\* handlePushSubscribe on subscribe() resolving true (part_000:226-235).
MirrorAfterResolve(c) ==
    /\ pushSubscribed' = IF c.caller = "handler" THEN TRUE ELSE pushSubscribed
    /\ pushEnabled' = IF c.caller = "handler" THEN TRUE ELSE pushEnabled
    /\ UNCHANGED <<pushSupported, pushPermission>>

\* subscribe() up to its first await (vendorErrorTracker.ts:569-577, 585-587),
\* entered from handlePushSubscribe once its own checks passed
\* (part_000:204-224) or from updatePreference(true) (vendorErrorTracker.ts:662-664).
SubscribeBegins(caller) ==
    IF ~checkSupport
    THEN LET c == SubscribeCall(caller, "start")
         IN /\ last' = Ended(c, "throw", "unsupported")
            /\ calls' = IF caller = "handler"
                        THEN Append(calls, [c EXCEPT !.pc = "fallback"])
                        ELSE calls
    ELSE /\ calls' = Append(calls, SubscribeCall(caller, "perm"))
         /\ last' = NoEnd

\* The catch of handlePushSubscribe (part_000:257-262): the toggle is reset.
MirrorStuckAfterFailure ==
    /\ pushSubscribed' = TRUE
    /\ pushEnabled' = TRUE
    /\ UNCHANGED <<pushSupported, pushPermission>>

MirrorAfterFailure ==
    /\ pushSubscribed' = FALSE
    /\ pushEnabled' = FALSE
    /\ UNCHANGED <<pushSupported, pushPermission>>

\* The handler's own permission check (part_000:214-219).
HandlerAcceptsDenied(p) == FALSE
HandlerDenied(p) == p = "denied"

\* Switch turned on (part_000:547-556): handlePushSubscribe.
HandlePushSubscribe ==
    /\ isOpen /\ pushSupported /\ ~pushSubscribed
    /\ CanStart
    /\ IF ~HasNotification \/ HandlerDenied(permission)
       THEN \* thrown before the service is called; the catch of 257-262
            /\ last' = Ended(SubscribeCall("handler", "handler"), "throw",
                             IF HasNotification THEN "denied" ELSE "unsupported")
            /\ MirrorAfterFailure
            /\ UNCHANGED calls
       ELSE /\ SubscribeBegins("handler")
            /\ UNCHANGED mirrorVars
    /\ UNCHANGED <<envVars, mgrVars, isEnabled>>
    /\ UNCHANGED <<triageVars, notPushVars>>

\* subscribe() after requestPermission() (vendorErrorTracker.ts:577-590, 620-625).
SubscribePermissionSettles(i, p) ==
    /\ At(i, "subscribe", "perm")
    /\ p \in PromptAnswers
    /\ permission' = p
    /\ LET c == calls[i] IN
       IF ~c.vapid
       THEN IF PermissionGranted(p)
            THEN /\ isSubscribed' = TRUE
                 /\ UNCHANGED subscription
                 /\ calls' = RemoveAt(calls, i)
                 /\ MirrorAfterResolve(c)
                 /\ last' = Ended(c, "true", "none")
            ELSE /\ UNCHANGED <<isSubscribed, subscription, mirrorVars>>
                 /\ calls' = AfterReject(calls, i)
                 /\ last' = Ended(c, "throw", "denied")
       ELSE IF PermissionGranted(p)
            THEN /\ calls' = [calls EXCEPT ![i].pc = "pm"]
                 /\ UNCHANGED <<isSubscribed, subscription, mirrorVars>>
                 /\ last' = NoEnd
            ELSE /\ isSubscribed' = FALSE
                 /\ subscription' = FALSE
                 /\ calls' = AfterReject(calls, i)
                 /\ UNCHANGED mirrorVars
                 /\ last' = Ended(c, "throw", "denied")
    /\ UNCHANGED <<browser, backendKey, browserSub, backendSubscribed,
                   vapidPublicKey, initPc, isEnabled>>
    /\ UNCHANGED <<triageVars, notPushVars>>

\* subscribe() after serviceWorker.ready and pushManager.subscribe
\* (vendorErrorTracker.ts:593-613, 620-625).
SubscribePushManagerSettles(i, r) ==
    /\ At(i, "subscribe", "pm")
    /\ LET c == calls[i] IN
       IF r = "ok"
       THEN /\ browserSub' = TRUE
            /\ subscription' = TRUE
            /\ isSubscribed' = TRUE
            /\ calls' = [calls EXCEPT ![i].pc = "backend"]
            /\ last' = NoEnd
       ELSE /\ UNCHANGED browserSub
            /\ subscription' = FALSE
            /\ isSubscribed' = FALSE
            /\ calls' = AfterReject(calls, i)
            /\ last' = Ended(c, "throw", "pushManager")
    /\ UNCHANGED <<browser, backendKey, permission, backendSubscribed,
                   vapidPublicKey, initPc, isEnabled, mirrorVars>>
    /\ UNCHANGED <<triageVars, notPushVars>>

\* subscribe() after subscribeToPushNotifications (vendorErrorTracker.ts:613-625).
SubscribeBackendSettles(i, r) ==
    /\ At(i, "subscribe", "backend")
    /\ LET c == calls[i] IN
       IF r = "ok"
       THEN /\ backendSubscribed' = TRUE
            /\ UNCHANGED <<isSubscribed, subscription>>
            /\ calls' = RemoveAt(calls, i)
            /\ MirrorAfterResolve(c)
            /\ last' = Ended(c, "true", "none")
       ELSE /\ UNCHANGED <<backendSubscribed, mirrorVars>>
            /\ isSubscribed' = FALSE
            /\ subscription' = FALSE
            /\ calls' = AfterReject(calls, i)
            /\ last' = Ended(c, "throw", "server")
    /\ UNCHANGED <<browser, backendKey, permission, browserSub,
                   vapidPublicKey, initPc, isEnabled>>
    /\ UNCHANGED <<triageVars, notPushVars>>

\* handlePushSubscribe after simpleNotificationService.enable()
\* (part_000:241-262; simpleNotificationService.ts:37-46, 129-133).
\* The handler ends here: enabled, or in its catch.
FallbackSettles(i, p) ==
    /\ At(i, "subscribe", "fallback")
    /\ p \in PromptAnswers
    /\ permission' = p
    /\ isEnabled' = (p = "granted")
    /\ IF p = "granted"
       THEN /\ pushSubscribed' = TRUE
            /\ pushEnabled' = TRUE
            /\ UNCHANGED <<pushSupported, pushPermission>>
            /\ last' = Ended(calls[i], "true", "none")
       ELSE /\ MirrorAfterFailure
            /\ last' = Ended(calls[i], "throw", "denied")
    /\ calls' = RemoveAt(calls, i)
    /\ UNCHANGED <<browser, backendKey, browserSub, backendSubscribed, mgrVars>>
    /\ UNCHANGED <<triageVars, notPushVars>>

\* handlePushUnsubscribe once unsubscribe() has settled either way
\* (part_000:288-299; simpleNotificationService.ts:138-140).
AfterUnsubscribeKeepsFallback(caller) ==
    /\ UNCHANGED isEnabled
    /\ pushSubscribed' = IF caller = "handler" THEN FALSE ELSE pushSubscribed
    /\ pushEnabled' = IF caller = "handler" THEN FALSE ELSE pushEnabled
    /\ UNCHANGED <<pushSupported, pushPermission>>

AfterUnsubscribe(caller) ==
    /\ isEnabled' = IF caller = "handler" THEN FALSE ELSE isEnabled
    /\ pushSubscribed' = IF caller = "handler" THEN FALSE ELSE pushSubscribed
    /\ pushEnabled' = IF caller = "handler" THEN FALSE ELSE pushEnabled
    /\ UNCHANGED <<pushSupported, pushPermission>>

\* unsubscribe() up to its first await (vendorErrorTracker.ts:631-638).
UnsubscribeSkips == ~checkSupport \/ ~subscription

UnsubscribeBegins(caller) ==
    IF UnsubscribeSkips
    THEN /\ last' = Ended(UnsubscribeCall(caller, "start"), "true", "none")
         /\ AfterUnsubscribe(caller)
         /\ UNCHANGED calls
    ELSE /\ calls' = Append(calls, UnsubscribeCall(caller, "pm"))
         /\ UNCHANGED <<isEnabled, mirrorVars>>
         /\ last' = NoEnd

\* Switch turned off (part_000:547-556): handlePushUnsubscribe.
HandlePushUnsubscribe ==
    /\ isOpen /\ pushSupported /\ pushSubscribed
    /\ CanStart
    /\ UnsubscribeBegins("handler")
    /\ UNCHANGED <<envVars, mgrVars>>
    /\ UNCHANGED <<triageVars, notPushVars>>

\* unsubscribe() after this.subscription.unsubscribe()
\* (vendorErrorTracker.ts:638-654). "true" goes on to the backend; "false" is
\* returned as it is; "throw" is rethrown.
UnsubscribePushManagerSettles(i, r) ==
    /\ At(i, "unsubscribe", "pm")
    /\ LET c == calls[i] IN
       IF r = "true"
       THEN /\ browserSub' = FALSE
            /\ calls' = [calls EXCEPT ![i].pc = "backend"]
            /\ UNCHANGED <<isEnabled, mirrorVars>>
            /\ last' = NoEnd
       ELSE /\ UNCHANGED browserSub
            /\ calls' = RemoveAt(calls, i)
            /\ AfterUnsubscribe(c.caller)
            /\ last' = Ended(c, r, IF r = "throw" THEN "pushManager" ELSE "none")
    /\ UNCHANGED <<browser, backendKey, permission, backendSubscribed, mgrVars>>
    /\ UNCHANGED <<triageVars, notPushVars>>

\* unsubscribe() after unsubscribeFromPushNotifications
\* (vendorErrorTracker.ts:642-654): the response is not inspected.
UnsubscribeBackendSettles(i, r) ==
    /\ At(i, "unsubscribe", "backend")
    /\ LET c == calls[i]
           e == IF c.caller = "handler" THEN FALSE ELSE isEnabled
       IN /\ calls' = RemoveAt(calls, i)
          /\ AfterUnsubscribe(c.caller)
          /\ IF r = "throw"
             THEN /\ UNCHANGED <<subscription, isSubscribed, backendSubscribed>>
                  /\ last' = Ended(c, "throw", "server")
             ELSE /\ subscription' = FALSE
                  /\ isSubscribed' = FALSE
                  /\ backendSubscribed' = IF r = "ok" THEN FALSE ELSE backendSubscribed
                  /\ last' = Ended(c, "true", "none")
    /\ UNCHANGED <<browser, backendKey, permission, browserSub, vapidPublicKey,
                   initPc>>
    /\ UNCHANGED <<triageVars, notPushVars>>

\* updatePreference(enabled) (vendorErrorTracker.ts:660-677): subscribes or
\* unsubscribes when the flag disagrees, and otherwise only stores the
\* preference in the backend.
UpdatePreference(enabled) ==
    /\ CanStart
    /\ IF enabled /\ ~isSubscribed
       THEN /\ SubscribeBegins("api")
            /\ UNCHANGED <<isEnabled, mirrorVars>>
       ELSE IF ~enabled /\ isSubscribed
            THEN UnsubscribeBegins("api")
            ELSE /\ UNCHANGED <<calls, isEnabled, mirrorVars>>
                 /\ last' = NoEnd
    /\ UNCHANGED <<envVars, mgrVars>>
    /\ UNCHANGED <<triageVars, notPushVars>>

\* ------------------------------------------------ NotificationDialog: push

\* The final state loadPushStatus derives (part_000:176-192) from the
\* permission it read and the flag the backend returned.
LoadedStateTrustsBackend(perm, backend) == perm = "granted" \/ backend
LoadedStateNeedsBackend(perm, backend) == perm = "granted" /\ backend
LoadedState(perm, backend) == perm = "granted"

\* loadPushStatus up to its await (part_000:142-166).
LoadBegins ==
    /\ pushSupported' = HasNotification
    /\ IF ~HasNotification
       THEN /\ pushEnabled' = FALSE
            /\ pushSubscribed' = FALSE
            /\ pushPermission' = "denied"
            /\ UNCHANGED calls
       ELSE /\ pushPermission' = permission
            /\ UNCHANGED <<pushEnabled, pushSubscribed>>
            /\ calls' = Append(calls, LoadCall)

\* The effect of part_000:443-453, push half, when isOpen turns true.
DialogOpens ==
    /\ ~isOpen /\ CanStart
    /\ isOpen' = TRUE
    /\ LoadBegins
    /\ UNCHANGED <<envVars, mgrVars, isEnabled>>
    /\ last' = NoEnd
    /\ UNCHANGED <<listVars, notPushVars>>

\* The same effect when isOpen turns false: the mirror is reset.
DialogCloses ==
    /\ isOpen
    /\ isOpen' = FALSE
    /\ pushEnabled' = FALSE
    /\ pushSubscribed' = FALSE
    /\ pushPermission' = "default"
    /\ UNCHANGED <<pushSupported, envVars, mgrVars, isEnabled, calls>>
    /\ last' = NoEnd
    /\ UNCHANGED <<listVars, notPushVars>>

\* The same effect re-run while open, after a page or filter change re-created
\* fetchNotifications: loadPushStatus is called again.
DialogRefetches ==
    /\ isOpen /\ CanStart
    /\ LoadBegins
    /\ UNCHANGED <<envVars, mgrVars, isEnabled>>
    /\ last' = NoEnd
    /\ UNCHANGED <<triageVars, notPushVars>>

\* loadPushStatus after getPushNotificationStatus (part_000:166-192). "ok":
\* the backend's flag is read; "refused" and "throw" leave it false.
LoadSettles(i, r) ==
    /\ At(i, "load", "status")
    /\ LET c == calls[i]
           backend == (r = "ok" /\ backendSubscribed)
           on == LoadedState(c.perm0, backend)
       IN /\ pushEnabled' = on
          /\ pushSubscribed' = on
          /\ last' = Ended(c, r, "none")
    /\ calls' = RemoveAt(calls, i)
    /\ UNCHANGED <<pushSupported, pushPermission, envVars, mgrVars, isEnabled>>
    /\ UNCHANGED <<triageVars, notPushVars>>

\* ------------------------------------------------ SimpleNotificationService
\* Most Notification objects constructed.
MaxAlerts == 2

\* An alert slot before its Notification is constructed.
NoAlert == [state |-> "none", timer |-> FALSE, closedBy |-> "none"]

NoSimpleCall == [op |-> "none", alert |-> 0, displayed |-> FALSE]

\* The call a fallback step makes, and what it displayed.
SimpleCall(op, a, displayed) == [op |-> op, alert |-> a, displayed |-> displayed]

ShowGuardSupportOnly == HasNotification

\* The guard of showNotification (simpleNotificationService.ts:60-63);
\* isSupported is checkSupport() at construction (20, 27-32).
ShowGuard == HasNotification /\ isEnabled

\* enable (simpleNotificationService.ts:129-133) with requestPermission
\* (37-46): without the Notification API the answer is 'denied' and nothing
\* is asked; otherwise the browser's prompt answers p and the flag follows.
SimpleEnable(p) ==
    /\ IF HasNotification
       THEN /\ p \in PromptAnswers
            /\ permission' = p
            /\ isEnabled' = (p = "granted")
       ELSE /\ p = "denied"
            /\ isEnabled' = FALSE
            /\ UNCHANGED permission
    /\ lastSimple' = SimpleCall("enable", 0, FALSE)
    /\ UNCHANGED <<browser, backendKey, browserSub, backendSubscribed>>
    /\ UNCHANGED <<mgrVars, mirrorVars, calls, last, alerts, focused>>
    /\ UNCHANGED <<triageVars, detailVars, trackerVars, textVars>>

SimpleDisableUnsubscribes ==
    /\ isEnabled' = FALSE
    /\ isSubscribed' = FALSE
    /\ subscription' = FALSE
    /\ lastSimple' = SimpleCall("disable", 0, FALSE)
    /\ UNCHANGED <<envVars, vapidPublicKey, initPc, mirrorVars, calls, last>>
    /\ UNCHANGED <<alerts, focused>>
    /\ UNCHANGED <<triageVars, detailVars, trackerVars, textVars>>

\* disable (simpleNotificationService.ts:138-140).
SimpleDisable ==
    /\ isEnabled' = FALSE
    /\ lastSimple' = SimpleCall("disable", 0, FALSE)
    /\ UNCHANGED <<envVars, mgrVars, mirrorVars, calls, last, alerts, focused>>
    /\ UNCHANGED <<triageVars, detailVars, trackerVars, textVars>>

\* The user changes the site's notification permission in the browser's
\* settings.
PermissionChanges(p) ==
    /\ HasNotification
    /\ p # permission
    /\ permission' = p
    /\ lastSimple' = SimpleCall("permission", 0, FALSE)
    /\ UNCHANGED <<browser, backendKey, browserSub, backendSubscribed>>
    /\ UNCHANGED <<mgrVars, isEnabled, mirrorVars, calls, last, alerts, focused>>
    /\ UNCHANGED <<triageVars, detailVars, trackerVars, textVars>>

\* showNotification (simpleNotificationService.ts:59-87): behind the guard it
\* constructs a Notification, which the browser displays only when the
\* permission is granted, and starts the 5-second timer.
ShowNotification ==
    /\ \E a \in 1..MaxAlerts : alerts[a] = NoAlert
    /\ LET a == CHOOSE a \in 1..MaxAlerts :
                    /\ alerts[a] = NoAlert
                    /\ \A b \in 1..(a - 1) : alerts[b] # NoAlert
       IN  IF ShowGuard
           THEN /\ alerts' = [alerts EXCEPT ![a] =
                                [state |-> IF permission = "granted"
                                           THEN "open" ELSE "blocked",
                                 timer |-> TRUE, closedBy |-> "none"]]
                /\ lastSimple' = SimpleCall("show", a, permission = "granted")
           ELSE /\ lastSimple' = SimpleCall("show", 0, FALSE)
                /\ UNCHANGED alerts
    /\ UNCHANGED <<pushVars, focused>>
    /\ UNCHANGED <<triageVars, detailVars, trackerVars, textVars>>

TimerLeavesOpen(alert) == [alert EXCEPT !.timer = FALSE]

\* The timer's callback, notif.close() (simpleNotificationService.ts:78-80):
\* closing a Notification that is not on display does nothing.
TimerCloses(alert) ==
    [alert EXCEPT !.timer = FALSE,
                  !.state = IF @ = "open" THEN "closed" ELSE @,
                  !.closedBy = IF alert.state = "open" THEN "timer" ELSE @]

\* The 5-second timer of alert a fires (simpleNotificationService.ts:77-80).
TimerFires(a) ==
    /\ alerts[a].timer
    /\ alerts' = [alerts EXCEPT ![a] = TimerCloses(alerts[a])]
    /\ lastSimple' = SimpleCall("timer", a, FALSE)
    /\ UNCHANGED <<pushVars, focused>>
    /\ UNCHANGED <<triageVars, detailVars, trackerVars, textVars>>

\* The user clicks alert a: onclick focuses the window and closes the alert
\* (simpleNotificationService.ts:82-86).
AlertClicked(a) ==
    /\ alerts[a].state = "open"
    /\ focused' = TRUE
    /\ alerts' = [alerts EXCEPT ![a].state = "closed", ![a].closedBy = "click"]
    /\ lastSimple' = SimpleCall("click", a, FALSE)
    /\ UNCHANGED pushVars
    /\ UNCHANGED <<triageVars, detailVars, trackerVars, textVars>>

\* The user turns to another window.
WindowBlurs ==
    /\ focused
    /\ focused' = FALSE
    /\ lastSimple' = SimpleCall("blur", 0, FALSE)
    /\ UNCHANGED <<pushVars, alerts>>
    /\ UNCHANGED <<triageVars, detailVars, trackerVars, textVars>>

\* handleTestNotification (part_000:311-354), the button rendered at
\* part_000:583-594. Its awaits take no turn of the event loop that another
\* event could use: pushNotificationService.showTestNotification
\* (vendorErrorTracker.ts:697-719) throws or constructs its Notification at
\* once, and simpleNotificationService.showTestNotification
\* (simpleNotificationService.ts:92-98) returns behind its guard or constructs
\* one. The call ends at "handler" (its own checks threw), "push" (the push
\* service displayed the alert), "simple" (the fallback notifier displayed
\* it) or "silent" (the fallback notifier returned without displaying).
HandleTestNotification ==
    /\ isOpen /\ pushSupported /\ pushSubscribed
    /\ \E a \in 1..MaxAlerts : alerts[a] = NoAlert
    /\ LET a == CHOOSE a \in 1..MaxAlerts :
                    /\ alerts[a] = NoAlert
                    /\ \A b \in 1..(a - 1) : alerts[b] # NoAlert
           call(pc) == [op |-> "test", caller |-> "handler", pc |-> pc,
                        vapid |-> FALSE, perm0 |-> permission,
                        sub0 |-> FALSE, held0 |-> FALSE]
           displayed == [alerts EXCEPT ![a] = [state |-> "open", timer |-> TRUE,
                                               closedBy |-> "none"]]
       IN  IF (~pushSubscribed /\ ~pushEnabled) \/ permission # "granted"
           THEN /\ last' = Ended(call("handler"), "throw", "permission")
                /\ lastSimple' = NoSimpleCall
                /\ UNCHANGED alerts
           ELSE IF checkSupport
           THEN /\ last' = Ended(call("push"), "true", "none")
                /\ lastSimple' = NoSimpleCall
                /\ alerts' = displayed
           ELSE IF ShowGuard
           THEN /\ last' = Ended(call("simple"), "true", "none")
                /\ lastSimple' = SimpleCall("show", a, TRUE)
                /\ alerts' = displayed
           ELSE /\ last' = Ended(call("silent"), "true", "none")
                /\ lastSimple' = SimpleCall("show", 0, FALSE)
                /\ UNCHANGED alerts
    /\ UNCHANGED <<envVars, mgrVars, isEnabled, mirrorVars, calls, focused>>
    /\ UNCHANGED <<triageVars, detailVars, trackerVars, textVars>>

\* No alert was constructed; the dialog's window has focus.
FallbackQuiet ==
    /\ alerts = [a \in 1..MaxAlerts |-> NoAlert]
    /\ focused = TRUE
    /\ lastSimple = NoSimpleCall

PushQuiet ==
    /\ pushSupported = FALSE
    /\ pushEnabled = FALSE
    /\ pushSubscribed = FALSE
    /\ pushPermission = "default"
    /\ vapidPublicKey = FALSE
    /\ isSubscribed = FALSE
    /\ subscription = FALSE
    /\ isEnabled = FALSE
    /\ calls = <<>>
    /\ last = NoEnd

\* The singletons right after construction (vendorErrorTracker.ts:476-486,
\* simpleNotificationService.ts:16-22), in any browser and against any backend.
\* A push subscription left from an earlier session needs a granted permission.
PushInit ==
    /\ browser \in {"none", "notif", "full"}
    /\ backendKey \in BOOLEAN
    /\ permission \in {"default", "granted", "denied"}
    /\ browserSub \in BOOLEAN
    /\ browserSub => (browser = "full" /\ permission = "granted")
    /\ backendSubscribed \in BOOLEAN
    /\ initPc = IF checkSupport THEN "getKey" ELSE "off"
    /\ PushQuiet

InitTriage ==
    /\ TriageInit
    /\ StoreAllPending /\ DetailQuiet /\ TrackerQuiet
    /\ TextQuiet /\ FallbackQuiet
    /\ browser = "full" /\ backendKey = TRUE /\ permission = "default"
    /\ browserSub = FALSE /\ backendSubscribed = FALSE
    /\ initPc = "done"
    /\ PushQuiet

InitPush ==
    /\ TriageInit /\ PushInit
    /\ StoreAllPending /\ DetailQuiet /\ TrackerQuiet
    /\ TextQuiet /\ FallbackQuiet

\* The push side at rest, for the specifications that do not drive it.
PushAtRest ==
    /\ browser = "full" /\ backendKey = TRUE /\ permission = "default"
    /\ browserSub = FALSE /\ backendSubscribed = FALSE
    /\ initPc = "done"
    /\ PushQuiet

\* The dialog over a store whose notifications are pending or in progress,
\* the first of them pending.
InitDetail ==
    /\ TriageInit /\ PushAtRest
    /\ store \in [NotificationIds -> {"pending", "in_progress"}]
    /\ store[1] = "pending"
    /\ DetailQuiet /\ TrackerQuiet
    /\ TextQuiet /\ FallbackQuiet

InitTracker ==
    /\ TriageInit /\ PushAtRest
    /\ StoreAllPending /\ DetailQuiet
    /\ TrackerInit
    /\ TextQuiet /\ FallbackQuiet

\* The inputs of one computation, before it is applied.
InitText ==
    /\ TriageInit /\ PushAtRest
    /\ StoreAllPending /\ DetailQuiet /\ TrackerQuiet
    /\ FallbackQuiet
    /\ classified \in TextInputs

\* The singletons after initialize() has run its course, in any browser:
\* with the key, and with the subscription an earlier session left, which
\* needs a granted permission.
InitFallback ==
    /\ TriageInit
    /\ StoreAllPending /\ DetailQuiet /\ TrackerQuiet
    /\ TextQuiet /\ FallbackQuiet
    /\ browser \in {"none", "notif", "full"}
    /\ backendKey = TRUE
    /\ permission \in {"default", "granted", "denied"}
    /\ browserSub \in BOOLEAN
    /\ browserSub => (browser = "full" /\ permission = "granted")
    /\ backendSubscribed = browserSub
    /\ initPc = IF checkSupport THEN "done" ELSE "off"
    /\ vapidPublicKey = checkSupport
    /\ isSubscribed = browserSub
    /\ subscription = browserSub
    /\ isEnabled = FALSE
    /\ pushSupported = FALSE /\ pushEnabled = FALSE
    /\ pushSubscribed = FALSE /\ pushPermission = "default"
    /\ calls = <<>>
    /\ last = NoEnd

NextTriage ==
    \/ OpenDialog
    \/ CloseDialog
    \/ \E f \in FilterSpace : SetFilters(f)
    \/ ClearFilters
    \/ PreviousPage
    \/ NextPage
    \/ Refresh
    \/ FetchEffect
    \/ ResetPageEffect
    \/ \E i \in 1..MaxInFlight, outcome \in {"ok", "refused", "throw"}, pages \in 1..MaxPage :
          FetchSettles(i, outcome, pages)

Outcomes == {"ok", "refused", "throw"}

\* The steps of PushNotificationService whoever called it.
NextService ==
    \/ \E r \in Outcomes : InitKeySettles(r)
    \/ \E r \in {"ok", "throw"} : InitSubSettles(r)
    \/ \E r \in Outcomes : InitStatusSettles(r)
    \/ \E i \in 1..MaxCalls, p \in {"granted", "denied", "default"} :
          SubscribePermissionSettles(i, p)
    \/ \E i \in 1..MaxCalls, r \in {"ok", "throw"} : SubscribePushManagerSettles(i, r)
    \/ \E i \in 1..MaxCalls, r \in Outcomes : SubscribeBackendSettles(i, r)
    \/ \E i \in 1..MaxCalls, r \in {"true", "false", "throw"} :
          UnsubscribePushManagerSettles(i, r)
    \/ \E i \in 1..MaxCalls, r \in Outcomes : UnsubscribeBackendSettles(i, r)

\* The service driven through the dialog's settings view.
NextPush ==
    \/ NextService
    \/ HandlePushSubscribe
    \/ HandlePushUnsubscribe
    \/ \E i \in 1..MaxCalls, p \in {"granted", "denied", "default"} : FallbackSettles(i, p)
    \/ DialogOpens
    \/ DialogCloses
    \/ DialogRefetches
    \/ \E i \in 1..MaxCalls, r \in Outcomes : LoadSettles(i, r)

SpecTriage == InitTriage /\ [][NextTriage]_vars

SpecPush == InitPush /\ [][NextPush]_vars

\* The settings view with its test button; the alerts a test displays stay
\* as they are (their timers and clicks are SpecFallback's).
NextTest ==
    \/ NextPush
    \/ HandleTestNotification

SpecTest == InitPush /\ [][NextTest]_vars

\* The service driven through its own updatePreference, without the dialog.
NextPreference ==
    \/ NextService
    \/ \E enabled \in BOOLEAN : UpdatePreference(enabled)

SpecService == InitPush /\ [][NextPreference]_vars

\* The dialog's list with its detail view, on the first page and unfiltered.
NextDetail ==
    \/ OpenDialog
    \/ CloseList
    \/ RefreshList
    \/ FetchEffect
    \/ \E i \in 1..MaxInFlight, outcome \in Outcomes : FetchSettles(i, outcome, 1)
    \/ \E id \in NotificationIds : SelectNotification(id)
    \/ CloseDetail
    \/ \E n \in NotesValues : SetNotes(n)
    \/ ResolveClicked(MaxOps)
    \/ \E id \in NotificationIds : DismissClicked(id, MaxOps)
    \/ \E i \in 1..MaxOps, r \in Outcomes : OpSettles(i, r)

SpecDetail == InitDetail /\ [][NextDetail]_vars

\* The detail view and the list's buttons activated again while an earlier
\* call is still in flight; the dialog stays open and is not refreshed by
\* hand.
NextRepeat ==
    \/ OpenDialog
    \/ FetchEffect
    \/ \E i \in 1..MaxInFlight, outcome \in Outcomes : FetchSettles(i, outcome, 1)
    \/ \E id \in NotificationIds : SelectNotification(id)
    \/ CloseDetail
    \/ \E n \in NotesValues : SetNotes(n)
    \/ ResolveClicked(MaxRepeat)
    \/ \E id \in NotificationIds : DismissClicked(id, MaxRepeat)
    \/ \E i \in 1..MaxRepeat, r \in Outcomes : OpSettles(i, r)

SpecRepeat == InitDetail /\ [][NextRepeat]_vars

\* One wrapped call after another, with the tracker switched on and off.
NextTracker ==
    \/ \E enabled \in BOOLEAN : SetEnabled(enabled)
    \/ UpdateVendorInfo
    \/ TrackedCallBegins
    \/ \E r \in {"ok", "throw"}, v \in RaisedValues : ApiSettles(r, v)
    \/ \E e \in ErrorValues : TrackError(e)
    \/ \E r \in Outcomes : CreateSettles(r)
    \/ TrackedCallReturns

SpecTracker == InitTracker /\ [][NextTracker]_vars

\* Each computation applied to its inputs.
NextText ==
    \/ TrackErrorBuilds
    \/ EnableFailureShown
    \/ VapidKeyDecoded

SpecText == InitText /\ [][NextText]_vars

\* The fallback notifier called by whoever holds it, with the user and the
\* timers acting in between.
NextFallback ==
    \/ \E p \in {"granted", "denied", "default"} : SimpleEnable(p)
    \/ SimpleDisable
    \/ \E p \in {"granted", "denied", "default"} : PermissionChanges(p)
    \/ ShowNotification
    \/ \E a \in 1..MaxAlerts : TimerFires(a)
    \/ \E a \in 1..MaxAlerts : AlertClicked(a)
    \/ WindowBlurs

SpecFallback == InitFallback /\ [][NextFallback]_vars

\* A timer that was started fires: setTimeout callbacks run while the page
\* lives.
SpecFallbackLive ==
    /\ InitFallback /\ [][NextFallback]_vars
    /\ \A a \in 1..MaxAlerts : WF_vars(TimerFires(a))

\* ------------------------------------------------------------ claims

\* C1: after a change of a filter value, the next list fetch issued carries
\* page = 1; no fetch combines the new filter values with the earlier page.
C1_FilterChangeFetchesPageOne ==
    lastFetch.afterFilterChange => lastFetch.page = 1

\* C2: once every in-flight fetch has settled, the list on display is the one
\* returned for the most recently issued request, for every arrival order.
C2_LatestResponseWins ==
    (reqs = <<>> /\ effects = <<>> /\ latestState = "applied")
        => notifications.latest

\* A subscribe() of the service (not the handler's own checks) just ended.
ServiceSubscribeEnded ==
    last.op = "subscribe" /\ last.at \notin {"handler", "fallback"}

\* C3: whenever the service's subscribe() fails, on either branch and from
\* any prior state, it leaves isSubscribed false and no subscription held.
C3_FailedSubscribeLeavesUnsubscribed ==
    (ServiceSubscribeEnded /\ last.outcome = "throw")
        => (~isSubscribed /\ ~subscription)

\* The backend flag a loadPushStatus that just completed had read.
LoadedBackendFlag == last.outcome = "ok" /\ backendSubscribed

C6_KeyedSubscribeRegisters ==
    (ServiceSubscribeEnded /\ last.outcome = "true" /\ backendKey)
        => {"pushManager", "backend"} \subseteq last.did

\* C7: a subscribe() on the branch without a VAPID key that the user grants
\* succeeds without an endpoint registration, and afterwards the fallback
\* notifier's isEnabled is true.
C7_KeylessSubscribeEnablesFallback ==
    (ServiceSubscribeEnded /\ last.caller = "handler" /\ ~last.vapid
        /\ last.outcome = "true")
        => ("backend" \notin last.did /\ isEnabled)

\* C8: enabling notifications while the permission is already denied fails
\* with the permission-denied error before any call is made (no permission
\* request, no push-manager subscribe, no backend subscribe), the service is
\* left as it was, and the state stays denied and not subscribed.
C8_DeniedSubscribeFailsEarly ==
    (last.op = "subscribe" /\ last.perm0 = "denied")
        => /\ last.outcome = "throw" /\ last.error = "denied"
           /\ last.did = {}
           /\ \A i \in 1..Len(calls) : calls[i].op = "subscribe" => calls[i].perm0 # "denied"
           /\ isSubscribed = last.sub0 /\ subscription = last.held0
           /\ permission = "denied"
           /\ ~pushSubscribed /\ ~pushEnabled

\* C8 witness: the toggle was turned on with the permission denied while the
\* backend has a key and reports a subscription, and the attempt was refused.
C8_Witness ==
    /\ last.op = "subscribe" /\ last.perm0 = "denied"
    /\ last.outcome = "throw" /\ last.error = "denied"
    /\ backendKey /\ backendSubscribed

\* C9: subscribe() called while already GrantedSubscribed returns success as
\* a no-op: the service is unchanged and no permission request, push-manager
\* subscribe or backend registration is made.
C9_SubscribeIdempotent ==
    (ServiceSubscribeEnded /\ last.sub0 /\ last.perm0 = "granted")
        => /\ last.outcome = "true"
           /\ last.did = {}
           /\ isSubscribed /\ subscription = last.held0

\* C10: after unsubscribe() returns success from a subscribed state,
\* isSubscribed is false and no subscription is held, whether the prior
\* subscription had an endpoint or was permission-only.
C10_UnsubscribeClears ==
    (last.op = "unsubscribe" /\ last.sub0 /\ last.outcome = "true")
        => (~isSubscribed /\ ~subscription)

\* C11: every unsubscribe taken from the settings toggle ends with the
\* fallback channel's enabled flag cleared and the toggle off, also when the
\* push manager's or the backend's unsubscribe threw.
C11_ToggleOffClearsFallback ==
    (last.op = "unsubscribe" /\ last.caller = "handler")
        => (~isEnabled /\ ~pushSubscribed /\ ~pushEnabled)

C11_Witness ==
    /\ last.op = "unsubscribe" /\ last.caller = "handler"
    /\ last.outcome = "throw"
    /\ ~isEnabled /\ ~pushSubscribed /\ ~pushEnabled

\* C12: subscription operations are serialized: at most one subscribe or
\* unsubscribe attempt is in flight at any time.
C12_SubscriptionsSerialized ==
    Cardinality({i \in 1..Len(calls) :
                    calls[i].op \in {"subscribe", "unsubscribe"}}) <= 1

\* C13: whenever enabling from the toggle ends in failure (the handler's own
\* checks threw, or push subscribe failed and the fallback enable was
\* refused), the handler completes with pushSubscribed and pushEnabled false.
C13_FailedEnableRollsBack ==
    (/\ last.op = "subscribe" /\ last.caller = "handler"
     /\ last.at \in {"handler", "fallback"}
     /\ last.outcome = "throw")
        => (~pushSubscribed /\ ~pushEnabled)

C13_Witness ==
    /\ last.op = "subscribe" /\ last.caller = "handler"
    /\ last.at = "fallback" /\ last.vapid
    /\ last.outcome = "throw"
    /\ ~pushSubscribed /\ ~pushEnabled

\* C14: resolve with empty or whitespace-only notes is a no-op: no
\* resolveNotification call goes out with notes that trim to nothing.
C14_BlankNotesNeverSent ==
    \A i \in 1..Len(ops) : ops[i].op = "resolve" => ~ops[i].blank

C14_Witness ==
    /\ isOpen /\ selectedNotification # NoSelection
    /\ resolutionNotes = <<" ">>
    /\ ops = <<>>

\* C15: when the store confirms a resolve, the notification is resolved, the
\* notes buffer is cleared, no notification is selected and the stats
\* collaborator was signalled exactly once for that resolve.
C15_ConfirmedResolveClosesDetail ==
    (lastOp.op = "resolve" /\ lastOp.outcome = "ok")
        => /\ store[lastOp.id] = "resolved"
           /\ resolutionNotes = <<>>
           /\ selectedNotification = NoSelection
           /\ lastOp.signals = 1

C15_Witness ==
    /\ lastOp.op = "resolve" /\ lastOp.outcome = "ok"
    /\ store[lastOp.id] = "resolved"
    /\ resolutionNotes = <<>> /\ selectedNotification = NoSelection
    /\ reqs # <<>>

\* A step that sends a call of kind op for notification id to the store.
Sends(op, id) ==
    /\ Len(ops') = Len(ops) + 1
    /\ ops'[Len(ops')].op = op
    /\ ops'[Len(ops')].id = id

\* C16: only a pending notification is eligible for dismiss: no dismiss is
\* sent for a notification the store holds as resolved, and a resolved
\* notification is never made dismissed, in every reachable state.
C16_ResolvedNeverDismissed ==
    [][\A id \in NotificationIds :
          store[id] = "resolved"
              => (~Sends("dismiss", id) /\ store'[id] # "dismissed")]_vars

\* The moves the status of a notification may make.
AllowedMoves ==
    {<<"pending", "in_progress">>, <<"pending", "resolved">>,
     <<"pending", "dismissed">>, <<"in_progress", "resolved">>,
     <<"in_progress", "dismissed">>}

\* C17: a notification's status only moves along pending -> {in_progress,
\* resolved, dismissed} and in_progress -> {resolved, dismissed}; once it is
\* resolved or dismissed no presenter action changes it again.
C17_StatusMovesForward ==
    [][\A id \in NotificationIds :
          store'[id] # store[id] => <<store[id], store'[id]>> \in AllowedMoves]_vars

\* C18: a detail view is opened only for a notification listed as pending:
\* the notification object held as the selection was pending when selected.
C18_OnlyPendingSelected ==
    selectedNotification # NoSelection => selectedNotification.status = "pending"

C18_Witness ==
    /\ selectedNotification # NoSelection
    /\ selectedNotification.status = "pending"
    /\ \E id \in NotificationIds :
          /\ id # selectedNotification.id
          /\ notifications.status[id] \in {"in_progress", "resolved", "dismissed"}

\* C19: the resolve and dismiss handlers leave the list untouched, and a
\* listed status changes only to the status the store has confirmed.
C19_ListFollowsStore ==
    [][/\ ops' # ops => notifications'.status = notifications.status
       /\ \A id \in NotificationIds :
             (/\ notifications.status[id] # "none"
              /\ notifications'.status[id] # "none"
              /\ notifications'.status[id] # notifications.status[id])
                 => notifications'.status[id] = store[id]]_vars

\* C20: a wrapped call whose operation fails rejects to its caller with the
\* very value the operation raised, whatever that value is and whether
\* tracking succeeded, was off or failed.
C20_WrapperRethrowsOriginal ==
    (tracked.pc = "done" /\ tracked.raised # "none")
        => tracked.result = [kind |-> "rejected", value |-> tracked.raised]

\* C21: a direct call of trackError never throws or rejects: whether tracking
\* was off, classifying the error threw or the create call failed, its
\* promise resolves.
C21_TrackNeverRejects ==
    (tracked.entry = "track" /\ tracked.pc = "done")
        => tracked.result.kind = "resolved"

C21_Witness ==
    /\ tracked.entry = "track" /\ tracked.pc = "done"
    /\ tracked.create = "throw"
    /\ tracked.result.kind = "resolved"

C21_WitnessClassify ==
    /\ tracked.entry = "track" /\ tracked.pc = "done"
    /\ tracked.known /\ ClassifyThrows(tracked.error)
    /\ tracked.result.kind = "resolved"

\* C22: whatever setEnabled and updateVendorInfo calls came before, a call
\* of trackError with an error of the declared shape submits exactly one
\* create call when tracking is enabled and the vendor's id and name are
\* known at the call, and none otherwise.
C22_OneCreatePerTrack ==
    (tracked.entry = "track" /\ tracked.error \in WellFormedErrors)
        => tracked.creates = IF tracked.known THEN 1 ELSE 0

C22_Witness ==
    /\ tracked.entry = "track" /\ tracked.error \in WellFormedErrors
    /\ tracked.known /\ tracked.creates = 1 /\ tracked.pc = "done"

C22_WitnessOff ==
    /\ tracked.entry = "track" /\ tracked.error \in WellFormedErrors
    /\ ~tracked.enabled /\ ~tracked.known /\ tracked.creates = 0
    /\ tracked.vendorId /\ tracked.vendorName /\ tracked.pc = "done"

\* C23: for every operation of the critical list (claim_order,
\* bulk_claim_orders, reverse_order, bulk_reverse_orders) the severity of the
\* notification is critical, whatever error type was supplied.
C23_CriticalOperationAlwaysCritical ==
    (/\ classified.fn = "track" /\ classified.applied
     /\ classified.in.operation \in
            {Op.claim_order, Op.bulk_claim_orders, Op.reverse_order, Op.bulk_reverse_orders})
        => classified.out.severity = "critical"

\* C23, amended: for every operation of the critical list the severity is
\* critical unless the error's type, supplied or inferred, is one of the high
\* error types VALIDATION_ERROR, FILE_ERROR and DATA_ERROR; then it is high.
C23_CriticalUnlessHighType ==
    (/\ classified.fn = "track" /\ classified.applied
     /\ classified.in.operation \in
            {Op.claim_order, Op.bulk_claim_orders, Op.reverse_order, Op.bulk_reverse_orders})
        => classified.out.severity =
               IF classified.out.error_type
                      \in {"VALIDATION_ERROR", "FILE_ERROR", "DATA_ERROR"}
               THEN "high" ELSE "critical"

C23_Witness ==
    /\ classified.fn = "track" /\ classified.applied
    /\ classified.in.operation = Op.reverse_order
    /\ classified.in.error.type = "API_ERROR"
    /\ classified.in.error.message = Msg.WentWrong
    /\ classified.out.severity = "critical"

\* C24: the severity is decided by the first rule that matches, in this
\* order: critical error type -> critical; high error type -> high; critical
\* operation -> critical; high operation -> high; message containing
\* critical or fatal -> critical; message containing failed or error -> high;
\* otherwise medium.
C24_SeverityFirstMatch ==
    (classified.fn = "track" /\ classified.applied)
        => LET type == classified.out.error_type
               operation == classified.in.operation
               message == ToLowerCase(classified.in.error.message)
           IN  classified.out.severity =
                   IF type \in {"NETWORK_ERROR", "TIMEOUT_ERROR",
                                "AUTHENTICATION_ERROR", "PERMISSION_ERROR"}
                   THEN "critical"
                   ELSE IF type \in {"VALIDATION_ERROR", "FILE_ERROR", "DATA_ERROR"}
                   THEN "high"
                   ELSE IF operation \in {Op.claim_order, Op.bulk_claim_orders,
                                          Op.reverse_order, Op.bulk_reverse_orders}
                   THEN "critical"
                   ELSE IF operation \in {Op.mark_ready, Op.bulk_mark_ready,
                                          Op.download_label, Op.bulk_download_labels}
                   THEN "high"
                   ELSE IF Includes(message, Kw.critical) \/ Includes(message, Kw.fatal)
                   THEN "critical"
                   ELSE IF Includes(message, Kw.failed) \/ Includes(message, Kw.error)
                   THEN "high"
                   ELSE "medium"

C24_Witness ==
    /\ classified.fn = "track" /\ classified.applied
    /\ classified.in.operation = Op.mark_ready
    /\ classified.in.error.type = NoType
    /\ classified.in.error.message = Msg.InvalidInput
    /\ classified.out.severity = "high"
    /\ classified.out.error_type = "VALIDATION_ERROR"

C24_WitnessMessage ==
    /\ classified.fn = "track" /\ classified.applied
    /\ classified.in.operation = Op.sync_inventory
    /\ classified.in.error.type = "API_ERROR"
    /\ classified.in.error.message = Msg.Fatal
    /\ classified.out.severity = "critical"

\* The type C25 describes: each keyword looked for in the name and in the
\* message.
ClaimedType(name, message) ==
    LET Either(keyword) == \/ Includes(ToLowerCase(name), keyword)
                           \/ Includes(ToLowerCase(message), keyword)
    IN  IF Either(Kw.network) THEN "NETWORK_ERROR"
        ELSE IF Either(Kw.auth) \/ Either(Kw.unauthorized) \/ Either(Kw.forbidden)
        THEN "AUTHENTICATION_ERROR"
        ELSE IF Either(Kw.validation) \/ Either(Kw.invalid)
        THEN "VALIDATION_ERROR"
        ELSE IF Either(Kw.timeout) THEN "TIMEOUT_ERROR"
        ELSE "UNKNOWN_ERROR"

\* C25: without error.type the type is the first match of network ->
\* NETWORK_ERROR; auth, unauthorized or forbidden -> AUTHENTICATION_ERROR;
\* validation or invalid -> VALIDATION_ERROR; timeout -> TIMEOUT_ERROR;
\* otherwise UNKNOWN_ERROR, each keyword looked for in the error's name and
\* in its message; a supplied error.type is used unchanged.
C25_KeywordsInNameAndMessage ==
    (classified.fn = "track" /\ classified.applied)
        => classified.out.error_type =
               IF classified.in.error.type # NoType
               THEN classified.in.error.type
               ELSE ClaimedType(classified.in.error.name,
                                classified.in.error.message)

\* The rules of the amended C25, in lower case.
AmendedType(name, message) ==
    LET n == ToLowerCase(name)
        m == ToLowerCase(message)
    IN  IF Includes(n, Kw.network) \/ Includes(m, Kw.fetch) \/ Includes(m, Kw.network)
        THEN "NETWORK_ERROR"
        ELSE IF \/ Includes(n, Kw.auth)
                \/ Includes(m, Kw.unauthorized) \/ Includes(m, Kw.forbidden)
        THEN "AUTHENTICATION_ERROR"
        ELSE IF Includes(n, Kw.validation) \/ Includes(m, Kw.invalid)
        THEN "VALIDATION_ERROR"
        ELSE IF Includes(n, Kw.timeout) \/ Includes(m, Kw.timeout)
        THEN "TIMEOUT_ERROR"
        ELSE "UNKNOWN_ERROR"

\* C25, amended: without error.type the type is the first match, ignoring
\* case, of: name contains network, or message contains fetch or network ->
\* NETWORK_ERROR; name contains auth, or message contains unauthorized or
\* forbidden -> AUTHENTICATION_ERROR; name contains validation, or message
\* contains invalid -> VALIDATION_ERROR; name or message contains timeout ->
\* TIMEOUT_ERROR; otherwise UNKNOWN_ERROR. An error named Error with the
\* message "request timeout" gets TIMEOUT_ERROR; a supplied error.type is
\* used unchanged.
C25_KeywordsByField ==
    (classified.fn = "track" /\ classified.applied)
        => /\ classified.out.error_type =
                  IF classified.in.error.type # NoType
                  THEN classified.in.error.type
                  ELSE AmendedType(classified.in.error.name,
                                   classified.in.error.message)
           /\ (/\ classified.in.error.type = NoType
               /\ classified.in.error.name = Name.Error
               /\ classified.in.error.message = Msg.RequestTimeout)
                  => classified.out.error_type = "TIMEOUT_ERROR"

C25_Witness ==
    /\ classified.fn = "track" /\ classified.applied
    /\ classified.in.error.type = NoType
    /\ classified.in.error.name = Name.Error
    /\ classified.in.error.message = Msg.RequestTimeout
    /\ classified.out.error_type = "TIMEOUT_ERROR"

C25_WitnessMessageOnly ==
    /\ classified.fn = "track" /\ classified.applied
    /\ classified.in.error.type = NoType
    /\ classified.in.error.name = Name.Error
    /\ classified.in.error.message = Msg.ValidationFailed
    /\ classified.out.error_type = "UNKNOWN_ERROR"

\* The title of the scenario of C26.
TxtBulkOrderClaimFailed ==
    <<"B", "u", "l", "k", " ", "O", "r", "d", "e", "r", " ", "C", "l", "a",
    "i", "m", " ", "F", "a", "i", "l", "e", "d">>

\* C26: the title is the operation's display name, from the table or else the
\* raw operation id, followed by " Failed" and, with an order id, by
\* " - Order <id>"; the message ends with the raw error text and names the
\* order id when there is one; bulk_claim_orders failing with the untyped
\* error "Request failed with status 500" (a bare object, or an Error named
\* Error) for order "123" gives severity critical and a title containing
\* "Bulk Order Claim Failed" and "123".
C26_TitleAndMessage ==
    (classified.fn = "track" /\ classified.applied)
        => LET operation == classified.in.operation
               orderId == classified.in.context.orderId
               listed == {TitleOperationNames[i][1] :
                              i \in 1..Len(TitleOperationNames)}
               displayName ==
                   IF operation \in listed
                   THEN OperationName(TitleOperationNames, operation)
                   ELSE operation
           IN  /\ classified.out.title =
                      IF orderId # OrderId.absent
                      THEN displayName \o Txt.Failed \o Txt.Order \o orderId
                      ELSE displayName \o Txt.Failed
               /\ EndsWith(classified.out.message, classified.in.error.message)
               /\ orderId # OrderId.absent => Includes(classified.out.message, orderId)
               /\ (/\ operation = Op.bulk_claim_orders
                   /\ classified.in.error.type = NoType
                   /\ classified.in.error.name \in {NoName, Name.Error}
                   /\ classified.in.error.message = Msg.Status500
                   /\ orderId = OrderId.given)
                      => /\ classified.out.severity = "critical"
                         /\ Includes(classified.out.title, TxtBulkOrderClaimFailed)
                         /\ Includes(classified.out.title, OrderId.given)

C26_Witness ==
    /\ classified.fn = "track" /\ classified.applied
    /\ classified.in.operation = Op.bulk_claim_orders
    /\ classified.in.error = [type |-> NoType, name |-> NoName,
                              message |-> Msg.Status500]
    /\ classified.in.context.orderId = OrderId.given
    /\ classified.out.severity = "critical"
    /\ Includes(classified.out.title, TxtBulkOrderClaimFailed)

C26_WitnessUnlisted ==
    /\ classified.fn = "track" /\ classified.applied
    /\ classified.in.operation = Op.sync_inventory
    /\ classified.out.title = Op.sync_inventory \o Txt.Failed

\* C27: showNotification displays an alert only when the permission is
\* granted and the enabled flag is true; with the flag cleared by disable(),
\* never set, or the permission no longer granted after a successful
\* enable(), it displays nothing.
C27_ShowsOnlyGrantedAndEnabled ==
    (lastSimple.op = "show" /\ lastSimple.displayed)
        => (permission = "granted" /\ isEnabled)

C27_Witness ==
    /\ lastSimple.op = "show" /\ lastSimple.displayed
    /\ alerts[lastSimple.alert].state = "open"

C27_WitnessRevoked ==
    /\ lastSimple.op = "show" /\ ~lastSimple.displayed
    /\ isEnabled /\ permission # "granted"
    /\ \A a \in 1..MaxAlerts : alerts[a].state # "open"

\* C28: disable() changes nothing but the enabled flag: the permission stays
\* as it was, and neither enable() nor disable() changes the
\* PushNotificationService's isSubscribed, subscription or VAPID key.
C28_DisableTouchesOnlyFlag ==
    [][/\ lastSimple'.op = "disable"
            => (~isEnabled' /\ UNCHANGED <<permission, mgrVars, alerts>>)
       /\ lastSimple'.op = "enable" => UNCHANGED mgrVars]_vars

C28_Witness ==
    /\ lastSimple.op = "disable"
    /\ ~isEnabled /\ permission = "granted"
    /\ isSubscribed /\ subscription /\ vapidPublicKey

\* C29: every alert on display is eventually closed: by its 5-second timer,
\* or before that by a click, which focuses the window and closes it.
C29_AlertEventuallyClosed ==
    \A a \in 1..MaxAlerts :
        (alerts[a].state = "open") ~> (alerts[a].state = "closed")

C29_Witness ==
    \E a \in 1..MaxAlerts :
        /\ alerts[a].state = "closed" /\ alerts[a].closedBy = "timer"
        /\ lastSimple = SimpleCall("timer", a, FALSE)

C29_WitnessClick ==
    \E a \in 1..MaxAlerts :
        /\ alerts[a].state = "closed" /\ alerts[a].closedBy = "click"
        /\ lastSimple = SimpleCall("click", a, FALSE) /\ focused

\* The guidance C30 quotes.
PhraseEnableInSettings ==
    <<"e", "n", "a", "b", "l", "e", " ", "n", "o", "t", "i", "f", "i", "c",
    "a", "t", "i", "o", "n", "s", " ", "i", "n", " ", "y", "o", "u", "r", " ",
    "b", "r", "o", "w", "s", "e", "r", " ", "s", "e", "t", "t", "i", "n", "g",
    "s">>
PhraseModernBrowser ==
    <<"u", "s", "e", " ", "a", " ", "m", "o", "d", "e", "r", "n", " ", "b",
    "r", "o", "w", "s", "e", "r">>

ReferenceBytes ==
    [webPush |->
         <<4, 73, 122, 218, 37, 24, 129, 72, 175, 196, 137, 47, 235, 220,
         149, 136, 75, 162, 4, 134, 190, 33, 191, 126, 74, 75, 204, 120,
         11, 64, 220, 177, 96, 15, 57, 43, 197, 146, 99, 74, 4, 167, 125,
         201, 35, 4, 155, 129, 146, 189, 234, 5, 70, 8, 28, 20, 5, 45, 118,
         41, 228, 217, 44, 135, 197>>,
     generator |->
         <<4, 107, 23, 209, 242, 225, 44, 66, 71, 248, 188, 230, 229, 99,
         164, 64, 242, 119, 3, 125, 129, 45, 235, 51, 160, 244, 161, 57,
         69, 216, 152, 194, 150, 79, 227, 66, 226, 254, 26, 127, 155, 142,
         231, 235, 74, 124, 15, 158, 22, 43, 206, 51, 87, 107, 49, 94, 206,
         203, 182, 64, 104, 55, 191, 81, 245>>,
     sixfold |->
         <<4, 176, 26, 23, 42, 118, 164, 96, 44, 146, 211, 36, 44, 184,
         151, 221, 227, 2, 76, 116, 13, 235, 178, 21, 180, 198, 176, 170,
         233, 60, 34, 145, 169, 232, 92, 16, 116, 50, 55, 218, 213, 111,
         236, 14, 45, 251, 167, 3, 121, 28, 0, 247, 112, 28, 126, 22, 189,
         253, 124, 72, 83, 143, 199, 127, 226>>,
     two |-> <<251>>,
     three |-> <<107, 239>>,
     four |-> <<105, 191, 191>>,
     six |-> <<255, 239, 254, 255>>,
     seven |-> <<102, 111, 111, 98, 97>>,
     eight |-> <<102, 111, 111, 98, 97, 114>>]

\* The bytes of a URL-safe base64 string read as a stream of bits, 6 to a
\* character and 8 to a byte.
BitStreamBytes(key) ==
    LET alphabet ==
            <<"A", "B", "C", "D", "E", "F", "G", "H", "I", "J", "K", "L", "M",
              "N", "O", "P", "Q", "R", "S", "T", "U", "V", "W", "X", "Y", "Z",
              "a", "b", "c", "d", "e", "f", "g", "h", "i", "j", "k", "l", "m",
              "n", "o", "p", "q", "r", "s", "t", "u", "v", "w", "x", "y", "z",
              "0", "1", "2", "3", "4", "5", "6", "7", "8", "9", "-", "_">>
        Value(c) == (CHOOSE k \in 1..64 : alphabet[k] = c) - 1
        Bit(k) == (Value(key[(k \div 6) + 1]) \div (2 ^ (5 - (k % 6)))) % 2
    IN  [j \in 1..((Len(key) * 6) \div 8) |->
            LET b == 8 * (j - 1)
            IN  128 * Bit(b) + 64 * Bit(b + 1) + 32 * Bit(b + 2)
                  + 16 * Bit(b + 3) + 8 * Bit(b + 4) + 4 * Bit(b + 5)
                  + 2 * Bit(b + 6) + Bit(b + 7)]

\* C31: decoding a VAPID key replaces "-" by "+" and "_" by "/", pads with
\* "=" to a multiple of 4 characters and base64-decodes: the result is the
\* byte sequence of the reference decoding, and for the URL-safe base64 of
\* an uncompressed P-256 public key it has exactly 65 bytes.
C31_VapidKeyDecodesToReference ==
    (classified.fn = "decode" /\ classified.applied)
        => /\ classified.out.error = "none"
           /\ classified.out.bytes = ReferenceBytes[classified.in.name]
           /\ classified.out.bytes = BitStreamBytes(classified.in.base64String)
           /\ Len(classified.in.base64String) = 87
                => Len(classified.out.bytes) = 65

C31_Witness ==
    /\ classified.fn = "decode" /\ classified.applied
    /\ classified.in.name = "webPush"
    /\ Len(classified.out.bytes) = 65
    /\ classified.out.bytes[1] = 4
    /\ \E i \in 1..87 : classified.in.base64String[i] = "-"

\* C32: while the dialog is closed the mirrored push state is reset:
\* pushEnabled and pushSubscribed are false and pushPermission is default,
\* whatever status load or enable/disable handler was still in flight when
\* the dialog closed.
C32_ClosedDialogMirrorReset ==
    ~isOpen => (~pushEnabled /\ ~pushSubscribed /\ pushPermission = "default")

\* C33: whenever no list fetch is in flight and none is about to be issued,
\* the page is within 1..totalPages.
C33_PageWithinRange ==
    (reqs = <<>> /\ effects = <<>>) => (1 <= page /\ page <= pagination)

\* C34: when a resolve call completes, the detail view is closed and the notes
\* are cleared only if the detail view still shows the notification the call
\* was made for; a detail view opened for another notification in the
\* meantime, and the notes typed there, are left as they are.
C34_ResolveClosesOnlyItsOwnDetail ==
    [][(/\ lastOp'.op = "resolve"
        /\ lastOp'.outcome # "none"
        /\ selectedNotification # NoSelection
        /\ selectedNotification.id # lastOp'.id)
       => UNCHANGED <<selectedNotification, resolutionNotes>>]_vars

\* C35: for each notification at most one resolve / dismiss call to the store
\* is outstanding; activating the button again while the first call is in
\* flight issues no second call.
C35_OneCallPerNotification ==
    \A i, j \in 1..Len(ops) : ops[i].id = ops[j].id => i = j

\* C36: whenever a detail view is opened the notes buffer is empty, so notes
\* typed for one notification and abandoned are never carried into the next
\* detail view.
C36_DetailOpensWithEmptyNotes ==
    [][(selectedNotification = NoSelection /\ selectedNotification' # NoSelection)
       => resolutionNotes' = <<>>]_vars

\* C37: the loading indicator is on exactly while at least one list fetch is
\* in flight; one of two overlapping fetches completing leaves it on.
C37_LoadingWhileFetching ==
    loading <=> reqs # <<>>

\* C38: the browser's push manager holds a subscription exactly when the
\* service's subscription field is non-null, in particular once subscribe()
\* has failed at the backend registration or unsubscribe() at its backend
\* step.
C38_SubscriptionFieldMatchesBrowser ==
    (last.op \in {"subscribe", "unsubscribe"} /\ last.outcome = "throw"
        /\ last.error = "server" /\ calls = <<>>)
    => (browserSub <=> subscription)

\* C39: once subscribe() has returned true the service keeps isSubscribed
\* true until an unsubscribe() succeeds; the completion of initialize() or of
\* checkSubscriptionStatus() does not turn it false.
C39_SubscribedUntilUnsubscribed ==
    [][(last.op = "subscribe" /\ last.outcome = "true" /\ last.at # "fallback"
            /\ isSubscribed /\ ~isSubscribed')
       => (last'.op = "unsubscribe" /\ last'.outcome = "true")]_vars

\* C40: a test notification reports success only if a test alert was
\* displayed, by exactly one of the push service and the fallback notifier.
C40_TestSuccessMeansDisplayed ==
    (last.op = "test" /\ last.outcome = "true") => Cardinality(last.did) = 1
====
